---- MODULE Spec2Model ----
(***************************************************************************)
(* gfetch: selective mirroring of a remote git repository.                 *)
(*                                                                         *)
(* The model follows pkg/gsync: SyncRepo and its phases in classic mode    *)
(* (one local repository holding the matched branches and tags) and in     *)
(* OpenVox mode (one directory and repository per matched ref).            *)
(*                                                                         *)
(* A ref name is a sequence of one-character strings, so that SanitizeName *)
(* and the pattern matcher work on characters as the Go code does.         *)
(* A git repository is a record of its reference store and object store.   *)
(* Lists that Go fills while it walks a reference iterator or a map are    *)
(* kept in the fixed order NameOrder; no operation reads their order.      *)
(***************************************************************************)
EXTENDS Integers, Sequences, FiniteSets, TLC

VARIABLES
    cfg,      \* the validated config.RepoConfig handed to SyncRepo
    call,     \* who calls SyncRepo, and with which SyncOptions
    remote,   \* the remote repository: its branches, tags and HEAD
    mirror,   \* the local root and the run in progress on it (DryRun off)
    preview,  \* a copy of the same local root on which the same calls run with DryRun on
    runs,     \* number of SyncRepo calls started so far
    spare,    \* whether the environment may still make one operation fail
    daemon,   \* the daemon: its scheduled jobs and HTTP handlers inside SyncRepo
    loaded,   \* the configuration file on its way through defaults and Validate
    eval      \* a call of SanitizeName, detectCollisions or MatchesAny: arguments and result

vars == <<cfg, call, remote, mirror, preview, runs, spare, daemon, loaded, eval>>

None == "none"

\* Number of consecutive SyncRepo calls on the same local root.
MaxRuns == 2

(***************************************************************************)
(* Names, hashes and commit dates                                          *)
(***************************************************************************)
M  == <<"m">>
F1 == <<"f", "-", "1">>
F2 == <<"f", ".", "1">>
V1 == <<"v", "1">>

RefNames == {M, F1, F2, V1}
NameOrder == <<F1, F2, M, V1>>

\* c1 is a commit made 400 days ago, c2 a commit made a day ago, t1 an
\* annotated tag object whose target is c1.
Commits == {"c1", "c2"}
TagObjects == {"t1"}
Hashes == Commits \cup TagObjects

\* time.Since(commit.Committer.When), in days.
SinceCommit == [c \in Commits |-> IF c = "c1" THEN 400 ELSE 1]

TagTarget == [t \in TagObjects |-> "c1"]

\* The objects a fetch of hash h brings into the object store.
ObjectsOf(h) == IF h \in TagObjects THEN {h, TagTarget[h]} ELSE {h}

\* Default stale age applied by validateRepo, in days.
DefaultStaleAge == 180

(***************************************************************************)
(* SanitizeName and the pattern matcher                                    *)
(***************************************************************************)
Letters == {"a", "b", "c", "d", "e", "f", "g", "h", "i", "j", "k", "l", "m",
            "n", "o", "p", "q", "r", "s", "t", "u", "v", "w", "x", "y", "z",
            "A", "B", "C", "D", "E", "F", "G", "H", "I", "J", "K", "L", "M",
            "N", "O", "P", "Q", "R", "S", "T", "U", "V", "W", "X", "Y", "Z"}
Digits == {"0", "1", "2", "3", "4", "5", "6", "7", "8", "9"}

SafeChar(r) == r \in Letters \/ r \in Digits \/ r = "_"

\* SanitizeName letting the hyphen through.
SanitizeNameHyphen(name) ==
    [i \in 1..Len(name) |->
        IF SafeChar(name[i]) \/ name[i] = "-" THEN name[i] ELSE "_"]

SanitizeName(name) ==
    [i \in 1..Len(name) |-> IF SafeChar(name[i]) THEN name[i] ELSE "_"]

\* regexp.MatchString for the patterns used here: literal characters, "."
\* for any character, "^" first and "$" last as anchors; unanchored otherwise.
MatchString(body, name) ==
    LET anchS == Len(body) > 0 /\ body[1] = "^"
        rest  == IF anchS THEN Tail(body) ELSE body
        anchE == Len(rest) > 0 /\ rest[Len(rest)] = "$"
        core  == IF anchE THEN SubSeq(rest, 1, Len(rest) - 1) ELSE rest
        At(i) == /\ i + Len(core) - 1 <= Len(name)
                 /\ \A k \in 1..Len(core) :
                        core[k] = "." \/ core[k] = name[i + k - 1]
    IN \E i \in 1..(Len(name) + 1) :
           /\ anchS => i = 1
           /\ At(i)
           /\ anchE => i + Len(core) - 1 = Len(name)

\* A config.Pattern: Raw and whether Compile has stored a compiled regex.
Pat(raw) == [Raw |-> raw, compiled |-> TRUE]

\* IsRegex taking "//", a pair of delimiters with nothing between, for a regex.
IsRegexEmpty(p) ==
    /\ Len(p.Raw) > 0 /\ p.Raw[1] = "/"
    /\ p.Raw[Len(p.Raw)] = "/"
    /\ Len(p.Raw) > 1

IsRegex(p) ==
    /\ Len(p.Raw) > 0 /\ p.Raw[1] = "/"
    /\ p.Raw[Len(p.Raw)] = "/"
    /\ Len(p.Raw) > 2

Matches(p, name) ==
    IF p.Raw = <<"*">> THEN TRUE
    ELSE IF IsRegex(p)
         THEN IF p.compiled
              THEN MatchString(SubSeq(p.Raw, 2, Len(p.Raw) - 1), name)
              ELSE FALSE
         ELSE p.Raw = name

MatchesAny(name, patterns) ==
    \E i \in 1..Len(patterns) : Matches(patterns[i], name)

(***************************************************************************)
(* A git repository on disk                                                *)
(***************************************************************************)
NoRefs == [n \in RefNames |-> None]

\* A path that does not exist. kind is "absent", "file" (an entry that is no
\* directory), "dir" (a directory that holds no repository) or "repo". heads, remotes (refs/remotes/origin/*),
\* tags and tmp (refs/gfetch-tmp/*) are the reference store, objs the object
\* store, origin whether the remote "origin" is configured, head the ref HEAD
\* points to after a checkout (<<>> before any) and wt the commit checked out.
Absent ==
    [kind |-> "absent", origin |-> FALSE, heads |-> NoRefs, remotes |-> NoRefs,
     tags |-> NoRefs, objs |-> {}, tmp |-> {}, head |-> <<>>, wt |-> None]

\* An environment failure injected into one operation on one name.
NoFault == [op |-> "none", name |-> <<>>]
Fault(op, name) == [op |-> op, name |-> name]
FaultsOf(ops, names) == {NoFault} \cup {Fault(o, n) : o \in ops, n \in names}

ensureCloned(e, fault, name) ==
    IF e.kind # "absent"
    THEN [repo |-> e, err |-> e.kind # "repo"]
    ELSE IF fault = Fault("init", name)
         THEN [repo |-> e, err |-> TRUE]
         ELSE LET r == [Absent EXCEPT !.kind = "repo"]
              IN  IF fault = Fault("remote", name)
                  THEN [repo |-> r, err |-> TRUE]
                  ELSE [repo |-> [r EXCEPT !.origin = TRUE], err |-> FALSE]

\* remote.ListContext succeeds.
CanList(r, fault, what) == r.origin /\ fault # Fault(what, <<>>)

ListNames(names) ==
    LET present(n) == n \in names
    IN  SelectSeq(NameOrder, present)

\* resolveBranches returning every remote branch, whatever the patterns.
resolveBranchesAll(patterns) ==
    LET ok(n) == remote.heads[n] # None
    IN  ListNames({n \in RefNames : ok(n)})

resolveBranches(patterns) ==
    LET ok(n) == remote.heads[n] # None /\ MatchesAny(n, patterns)
    IN  ListNames({n \in RefNames : ok(n)})

resolveTags(patterns) ==
    LET ok(n) == remote.tags[n] # None /\ MatchesAny(n, patterns)
    IN  ListNames({n \in RefNames : ok(n)})

resolveDefaultBranch(r, fault) ==
    IF CanList(r, fault, "listhead") THEN remote.HEAD ELSE <<>>

\* The history of the remote: c1 and c2 have no parent, so neither is an
\* ancestor of the other and a branch moving between them was rewritten.
IsAncestor(a, b) == a = b

\* syncBranch leaving the local ref alone when the move is no fast-forward.
syncBranchFastForward(r, branch, fault) ==
    IF \/ fault = Fault("fetch", branch)
       \/ ~r.origin
       \/ remote.heads[branch] = None
    THEN [repo |-> r, updated |-> FALSE, err |-> TRUE]
    ELSE LET rh == remote.heads[branch]
             fetched == [r EXCEPT !.remotes[branch] = rh,
                                  !.objs = @ \cup ObjectsOf(rh)]
         IN  IF fault = Fault("resolve", branch)
             THEN [repo |-> fetched, updated |-> FALSE, err |-> TRUE]
             ELSE IF \/ fetched.heads[branch] = fetched.remotes[branch]
                     \/ /\ fetched.heads[branch] # None
                        /\ ~IsAncestor(fetched.heads[branch], rh)
                  THEN [repo |-> fetched, updated |-> FALSE, err |-> FALSE]
                  ELSE IF fault = Fault("setref", branch)
                       THEN [repo |-> fetched, updated |-> FALSE, err |-> TRUE]
                       ELSE [repo |-> [fetched EXCEPT !.heads[branch] = rh],
                             updated |-> TRUE, err |-> FALSE]

\* syncBranch without the comparison of the local and the remote hash.
syncBranchForce(r, branch, fault) ==
    IF \/ fault = Fault("fetch", branch)
       \/ fault = Fault("resolve", branch)
       \/ fault = Fault("setref", branch)
       \/ ~r.origin
       \/ remote.heads[branch] = None
    THEN [repo |-> r, updated |-> FALSE, err |-> TRUE]
    ELSE [repo |-> [r EXCEPT !.remotes[branch] = remote.heads[branch],
                             !.heads[branch] = remote.heads[branch],
                             !.objs = @ \cup ObjectsOf(remote.heads[branch])],
          updated |-> TRUE, err |-> FALSE]

\* syncBranch setting the local ref before it resolves the fetched ref.
syncBranchEager(r, branch, fault) ==
    IF \/ fault = Fault("fetch", branch)
       \/ ~r.origin
       \/ remote.heads[branch] = None
    THEN [repo |-> r, updated |-> FALSE, err |-> TRUE]
    ELSE LET rh == remote.heads[branch]
             moved == [r EXCEPT !.remotes[branch] = rh, !.heads[branch] = rh,
                                !.objs = @ \cup ObjectsOf(rh)]
         IN  IF fault = Fault("resolve", branch) \/ fault = Fault("setref", branch)
             THEN [repo |-> moved, updated |-> FALSE, err |-> TRUE]
             ELSE [repo |-> moved, updated |-> r.heads[branch] # rh, err |-> FALSE]

syncBranch(r, branch, fault) ==
    IF \/ fault = Fault("fetch", branch)
       \/ ~r.origin
       \/ remote.heads[branch] = None
    THEN [repo |-> r, updated |-> FALSE, err |-> TRUE]
    ELSE LET rh == remote.heads[branch]
             fetched == [r EXCEPT !.remotes[branch] = rh,
                                  !.objs = @ \cup ObjectsOf(rh)]
         IN  IF fault = Fault("resolve", branch)
             THEN [repo |-> fetched, updated |-> FALSE, err |-> TRUE]
             ELSE IF fetched.heads[branch] = fetched.remotes[branch]
                  THEN [repo |-> fetched, updated |-> FALSE, err |-> FALSE]
                  ELSE IF fault = Fault("setref", branch)
                       THEN [repo |-> fetched, updated |-> FALSE, err |-> TRUE]
                       ELSE [repo |-> [fetched EXCEPT !.heads[branch] = rh],
                             updated |-> TRUE, err |-> FALSE]

HasCommit(r, h) == h \in r.objs /\ h \in Commits

\* repo.CommitObject finds the commit and reads it.
ReadsCommit(r, h, fault, name) == HasCommit(r, h) /\ fault # Fault("commit", name)

\* checkStaleness removing the temporary ref only when the commit was read.
checkStalenessLeaky(r, name, hash, age, fault) ==
    IF ReadsCommit(r, hash, fault, name)
    THEN [repo |-> r, stale |-> SinceCommit[hash] > age, err |-> FALSE]
    ELSE IF fault = Fault("probe", name) \/ ~r.origin
         THEN [repo |-> r, stale |-> FALSE, err |-> TRUE]
         ELSE LET probed  == [r EXCEPT !.tmp = @ \cup {name},
                                       !.objs = @ \cup ObjectsOf(hash)]
                  cleaned == [probed EXCEPT !.tmp = @ \ {name}]
              IN  IF ReadsCommit(probed, hash, fault, name)
                  THEN [repo |-> cleaned,
                        stale |-> SinceCommit[hash] > age, err |-> FALSE]
                  ELSE [repo |-> probed, stale |-> FALSE, err |-> TRUE]

checkStaleness(r, name, hash, age, fault) ==
    IF ReadsCommit(r, hash, fault, name)
    THEN [repo |-> r, stale |-> SinceCommit[hash] > age, err |-> FALSE]
    ELSE IF fault = Fault("probe", name) \/ ~r.origin
         THEN [repo |-> r, stale |-> FALSE, err |-> TRUE]
         ELSE LET probed  == [r EXCEPT !.tmp = @ \cup {name},
                                       !.objs = @ \cup ObjectsOf(hash)]
                  cleaned == [probed EXCEPT !.tmp = @ \ {name}]
              IN  IF ReadsCommit(probed, hash, fault, name)
                  THEN [repo |-> cleaned,
                        stale |-> SinceCommit[hash] > age, err |-> FALSE]
                  ELSE [repo |-> cleaned, stale |-> FALSE, err |-> TRUE]

\* IsStale taking a failed check for "stale".
IsStaleOnError(r, name, hash, age, fault) ==
    LET c == checkStaleness(r, name, hash, age, fault)
    IN  [repo |-> c.repo, stale |-> c.err \/ c.stale]

\* IsStale answering "not stale" for every branch.
IsStaleNever(r, name, hash, age, fault) == [repo |-> r, stale |-> FALSE]

IsStale(r, name, hash, age, fault) ==
    LET c == checkStaleness(r, name, hash, age, fault)
    IN  [repo |-> c.repo, stale |-> IF c.err THEN FALSE ELSE c.stale]

findObsoleteBranches(r, patterns) ==
    LET obs(n) == r.heads[n] # None /\ ~MatchesAny(n, patterns)
    IN  ListNames({n \in RefNames : obs(n)})

\* findStaleBranches listing the branches committed after the cutoff.
findStaleBranchesAfter(r, patterns, age, fault) ==
    LET matched(n) == r.heads[n] # None /\ MatchesAny(n, patterns)
        new(n) == matched(n) /\ ~(SinceCommit[r.heads[n]] > age)
    IN  IF age = 0
        THEN [stale |-> <<>>, err |-> FALSE]
        ELSE IF \E n \in RefNames :
                    matched(n) /\ ~ReadsCommit(r, r.heads[n], fault, n)
             THEN [stale |-> <<>>, err |-> TRUE]
             ELSE [stale |-> ListNames({n \in RefNames : new(n)}), err |-> FALSE]

\* err: CommitObject failed for a matched local branch.
findStaleBranches(r, patterns, age, fault) ==
    LET matched(n) == r.heads[n] # None /\ MatchesAny(n, patterns)
        old(n) == matched(n) /\ SinceCommit[r.heads[n]] > age
    IN  IF age = 0
        THEN [stale |-> <<>>, err |-> FALSE]
        ELSE IF \E n \in RefNames :
                    matched(n) /\ ~ReadsCommit(r, r.heads[n], fault, n)
             THEN [stale |-> <<>>, err |-> TRUE]
             ELSE [stale |-> ListNames({n \in RefNames : old(n)}), err |-> FALSE]

\* deleteBranch removing the local branch ref only.
deleteBranchLocal(r, branch, fault) ==
    IF fault = Fault("delete", branch)
    THEN [repo |-> r, err |-> TRUE]
    ELSE [repo |-> [r EXCEPT !.heads[branch] = None], err |-> FALSE]

deleteBranch(r, branch, fault) ==
    IF fault = Fault("delete", branch)
    THEN [repo |-> r, err |-> TRUE]
    ELSE LET r1 == [r EXCEPT !.heads[branch] = None]
         IN  IF r1.remotes[branch] # None
             THEN IF fault = Fault("deltrack", branch)
                  THEN [repo |-> r1, err |-> TRUE]
                  ELSE [repo |-> [r1 EXCEPT !.remotes[branch] = None],
                        err |-> FALSE]
             ELSE [repo |-> r1, err |-> FALSE]

\* checkoutRef resetting to the hash of the ref without peeling a tag object.
checkoutRefUnpeeled(r, name, fault) ==
    LET kind == IF r.heads[name] # None THEN "heads"
                ELSE IF r.tags[name] # None THEN "tags" ELSE None
        hash == IF kind = "heads" THEN r.heads[name] ELSE r.tags[name]
    IN  IF kind = None \/ fault = Fault("checkout", name)
        THEN [repo |-> r, err |-> TRUE]
        ELSE IF ~HasCommit(r, hash)
             THEN [repo |-> [r EXCEPT !.head = <<kind, name>>], err |-> TRUE]
             ELSE [repo |-> [r EXCEPT !.head = <<kind, name>>, !.wt = hash],
                   err |-> FALSE]

checkoutRef(r, name, fault) ==
    LET kind == IF r.heads[name] # None THEN "heads"
                ELSE IF r.tags[name] # None THEN "tags" ELSE None
        refh == IF kind = "heads" THEN r.heads[name] ELSE r.tags[name]
        hash == IF refh \in TagObjects /\ refh \in r.objs
                THEN TagTarget[refh] ELSE refh
    IN  IF kind = None \/ fault = Fault("checkout", name)
        THEN [repo |-> r, err |-> TRUE]
        ELSE IF ~HasCommit(r, hash)
             THEN [repo |-> [r EXCEPT !.head = <<kind, name>>], err |-> TRUE]
             ELSE [repo |-> [r EXCEPT !.head = <<kind, name>>, !.wt = hash],
                   err |-> FALSE]

(***************************************************************************)
(* One SyncRepo call on one local root                                     *)
(***************************************************************************)
\* The entry names under local_path in OpenVox mode: the sanitized ref
\* names and three names that no ref of RefNames maps to: a directory "old",
\* a hidden directory ".x" and a file "nb". DirOrder is the order of
\* os.ReadDir, sorted by name.
Stray == <<"o", "l", "d">>
HiddenDir == <<".", "x">>
PlainFile == <<"n", "b">>
DirNames == {SanitizeName(n) : n \in RefNames} \cup {Stray, HiddenDir, PlainFile}
DirOrder ==
    <<HiddenDir, SanitizeName(F1), SanitizeName(M), PlainFile, Stray,
      SanitizeName(V1)>>

\* entry.IsDir() and a name that does not start with ".".
IsDir(e) == e.kind \in {"dir", "repo"}
IsHidden(name) == Head(name) = "."

\* sanitizedToOriginal before any name is recorded; a missing key reads as "".
NoActive == [d \in DirNames |-> <<>>]

NewResult ==
    [BranchesSynced |-> <<>>, BranchesUpToDate |-> <<>>, BranchesFailed |-> <<>>,
     TagsFetched |-> <<>>, TagsUpToDate |-> <<>>, TagsFailed |-> <<>>,
     TagsObsolete |-> <<>>, TagsPruned |-> <<>>,
     BranchesObsolete |-> <<>>, BranchesPruned |-> <<>>, BranchesStale |-> <<>>,
     Checkout |-> <<>>, Err |-> None]

NoOpts == [Prune |-> FALSE, PruneStale |-> FALSE, StaleAge |-> 0, DryRun |-> FALSE]

NothingDeleted ==
    [branches |-> {}, tags |-> {}, dirs |-> {}, refs |-> {}, failed |-> {}]

\* root: the repository at local_path (classic mode) or at
\* local_path/.gfetch-meta (OpenVox mode); dirs: the per-ref directories.
\* pc, opts, result, active (sanitizedToOriginal) belong to the run in
\* progress. History kept for the properties: prev (the result of the run
\* before), before (root and dirs when the run started), deleted (what the
\* run removed from disk: local branches, local tags, directories, the ref
\* names whose directory was removed as stale, and in failed the names whose
\* deletion returned an error), unprobed (the branches whose staleness check
\* returned an error), unread (the branches whose commit findStaleBranches or
\* pruneStaleOpenVoxDirs could not read).
NewWorld(root, dirs) ==
    [root |-> root, dirs |-> dirs, pc |-> "idle", opts |-> NoOpts,
     result |-> NewResult, active |-> NoActive,
     prev |-> NewResult, before |-> [root |-> root, dirs |-> dirs],
     deleted |-> NothingDeleted, unprobed |-> {}, unread |-> {}]

Range(s) == {s[i] : i \in 1..Len(s)}

SetErr(w, e) == IF w.result.Err = None THEN [w EXCEPT !.result.Err = e] ELSE w

\* SyncRepo up to the dispatch on repo.OpenVox.
startRun(w, dry, fault) ==
    LET opts == [Prune |-> call.opts.Prune,
                 PruneStale |-> call.opts.PruneStale \/ cfg.PruneStale,
                 StaleAge |-> IF call.opts.StaleAge = 0 /\ cfg.StaleAge # 0
                              THEN cfg.StaleAge ELSE call.opts.StaleAge,
                 DryRun |-> dry]
        w0 == [w EXCEPT !.opts = opts, !.result = NewResult,
                        !.prev = w.result,
                        !.active = NoActive,
                        !.before = [root |-> w.root, dirs |-> w.dirs],
                        !.deleted = NothingDeleted, !.unprobed = {},
                        !.unread = {}]
    IN  IF fault = Fault("https", <<>>)
        THEN [w0 EXCEPT !.result.Err = "https", !.pc = "idle"]
        ELSE [w0 EXCEPT !.pc = IF cfg.OpenVox THEN "ovprepare" ELSE "clone"]

\* resolveAuth and ensureCloned of SyncRepo.
openRepo(w, fault) ==
    LET c == ensureCloned(w.root, fault, <<>>)
    IN  IF fault = Fault("auth", <<>>)
        THEN [w EXCEPT !.result.Err = "auth", !.pc = "idle"]
        ELSE IF c.err
             THEN [w EXCEPT !.root = c.repo, !.result.Err = "clone", !.pc = "idle"]
             ELSE [w EXCEPT !.root = c.repo, !.pc = "branches"]

\* History: the staleness check of branch returned an error.
NoteProbe(w, branch, fault) ==
    IF /\ w.opts.PruneStale /\ w.opts.Prune
       /\ checkStaleness(w.root, branch, remote.heads[branch],
                         w.opts.StaleAge, fault).err
    THEN [w EXCEPT !.unprobed = @ \cup {branch}]
    ELSE w

\* History: the matched local branches whose commit findStaleBranches could
\* not read.
NoteRead(w, fault) ==
    [w EXCEPT !.unread =
        {n \in RefNames : /\ w.root.heads[n] # None
                          /\ MatchesAny(n, cfg.Branches)
                          /\ ~ReadsCommit(w.root, w.root.heads[n], fault, n)}]

\* The loop of syncBranches returning at the first branch that fails.
RECURSIVE syncBranchLoopStop(_, _, _)
syncBranchLoopStop(w, branches, fault) ==
    IF branches = <<>> THEN w
    ELSE LET branch == Head(branches)
             st == IF w.opts.PruneStale /\ w.opts.Prune
                   THEN IsStale(w.root, branch, remote.heads[branch],
                                w.opts.StaleAge, fault)
                   ELSE [repo |-> w.root, stale |-> FALSE]
             s == syncBranch(st.repo, branch, fault)
             w1 == [NoteProbe(w, branch, fault) EXCEPT !.root = s.repo]
         IN  IF st.stale
             THEN syncBranchLoopStop([w1 EXCEPT !.root = st.repo], Tail(branches), fault)
             ELSE IF s.err
                  THEN [w1 EXCEPT !.result.BranchesFailed = Append(@, branch)]
                  ELSE IF s.updated
                       THEN syncBranchLoopStop(
                                [w1 EXCEPT !.result.BranchesSynced = Append(@, branch)],
                                Tail(branches), fault)
                       ELSE syncBranchLoopStop(
                                [w1 EXCEPT !.result.BranchesUpToDate = Append(@, branch)],
                                Tail(branches), fault)

RECURSIVE syncBranchLoop(_, _, _)
syncBranchLoop(w, branches, fault) ==
    IF branches = <<>> THEN w
    ELSE LET branch == Head(branches)
             st == IF w.opts.PruneStale /\ w.opts.Prune
                   THEN IsStale(w.root, branch, remote.heads[branch],
                                w.opts.StaleAge, fault)
                   ELSE [repo |-> w.root, stale |-> FALSE]
             w0 == NoteProbe(w, branch, fault)
         IN  IF st.stale
             THEN syncBranchLoop([w0 EXCEPT !.root = st.repo], Tail(branches), fault)
             ELSE LET s == syncBranch(st.repo, branch, fault)
                      w1 == [w0 EXCEPT !.root = s.repo]
                      w2 == IF s.err
                            THEN [w1 EXCEPT !.result.BranchesFailed = Append(@, branch)]
                            ELSE IF s.updated
                                 THEN [w1 EXCEPT !.result.BranchesSynced = Append(@, branch)]
                                 ELSE [w1 EXCEPT !.result.BranchesUpToDate = Append(@, branch)]
                  IN  syncBranchLoop(w2, Tail(branches), fault)

\* deleteBranch on the root repository, with the record of what left the disk.
DeleteBranchIn(w, branch, fault) ==
    LET d == deleteBranch(w.root, branch, fault)
    IN  [w |-> [w EXCEPT !.root = d.repo,
                         !.deleted.branches =
                             IF w.root.heads[branch] # None /\ d.repo.heads[branch] = None
                             THEN @ \cup {branch} ELSE @,
                         !.deleted.failed =
                             IF d.err THEN @ \cup {branch} ELSE @],
         err |-> d.err]

\* pruneBranches deleting also when DryRun is set.
RECURSIVE pruneBranchesLive(_, _, _)
pruneBranchesLive(w, obsolete, fault) ==
    IF obsolete = <<>> THEN w
    ELSE LET branch == Head(obsolete)
             d == DeleteBranchIn(w, branch, fault)
             w1 == IF cfg.Checkout # <<>> /\ branch = cfg.Checkout THEN w
                   ELSE IF ~w.opts.Prune THEN w
                   ELSE IF d.err THEN d.w
                        ELSE [d.w EXCEPT !.result.BranchesPruned = Append(@, branch)]
         IN  pruneBranchesLive(w1, Tail(obsolete), fault)

RECURSIVE pruneBranches(_, _, _)
pruneBranches(w, obsolete, fault) ==
    IF obsolete = <<>> THEN w
    ELSE LET branch == Head(obsolete)
             d == DeleteBranchIn(w, branch, fault)
             w1 == IF cfg.Checkout # <<>> /\ branch = cfg.Checkout THEN w
                   ELSE IF ~w.opts.Prune THEN w
                   ELSE IF w.opts.DryRun
                        THEN [w EXCEPT !.result.BranchesPruned = Append(@, branch)]
                        ELSE IF d.err THEN d.w
                             ELSE [d.w EXCEPT !.result.BranchesPruned = Append(@, branch)]
         IN  pruneBranches(w1, Tail(obsolete), fault)

\* pruneStaleBranches without the protection of the checkout branch.
RECURSIVE pruneStaleBranchesAll(_, _, _)
pruneStaleBranchesAll(w, stale, fault) ==
    IF stale = <<>> THEN w
    ELSE LET branch == Head(stale)
             d == DeleteBranchIn(w, branch, fault)
             w1 == IF w.opts.DryRun
                   THEN [w EXCEPT !.result.BranchesPruned = Append(@, branch)]
                   ELSE IF d.err THEN d.w
                        ELSE [d.w EXCEPT !.result.BranchesPruned = Append(@, branch)]
         IN  pruneStaleBranchesAll(w1, Tail(stale), fault)

RECURSIVE pruneStaleBranches(_, _, _)
pruneStaleBranches(w, stale, fault) ==
    IF stale = <<>> THEN w
    ELSE LET branch == Head(stale)
             d == DeleteBranchIn(w, branch, fault)
             w1 == IF cfg.Checkout # <<>> /\ branch = cfg.Checkout THEN w
                   ELSE IF w.opts.DryRun
                        THEN [w EXCEPT !.result.BranchesPruned = Append(@, branch)]
                        ELSE IF d.err THEN d.w
                             ELSE [d.w EXCEPT !.result.BranchesPruned = Append(@, branch)]
         IN  pruneStaleBranches(w1, Tail(stale), fault)

syncBranches(w, fault) ==
    IF Len(cfg.Branches) = 0 THEN w
    ELSE IF ~CanList(w.root, fault, "list")
    THEN [w EXCEPT !.result.Err = "resolving branches"]
    ELSE LET w1 == syncBranchLoop(w, resolveBranches(cfg.Branches), fault)
             obsolete == findObsoleteBranches(w1.root, cfg.Branches)
             w2 == pruneBranches([w1 EXCEPT !.result.BranchesObsolete = obsolete],
                                 obsolete, fault)
             st == findStaleBranches(w2.root, cfg.Branches, w2.opts.StaleAge, fault)
         IN  IF w2.opts.PruneStale /\ ~st.err
             THEN pruneStaleBranches([w2 EXCEPT !.result.BranchesStale = st.stale],
                                     st.stale, fault)
             ELSE IF w2.opts.PruneStale THEN NoteRead(w2, fault) ELSE w2

\* The pruning loop of handleObsoleteTags reporting nothing in a dry run.
RECURSIVE pruneTagsSilent(_, _, _)
pruneTagsSilent(w, obsolete, fault) ==
    IF obsolete = <<>> THEN w
    ELSE LET tag == Head(obsolete)
             w1 == IF w.opts.DryRun THEN w
                   ELSE IF fault = Fault("deltag", tag)
                        THEN [w EXCEPT !.deleted.failed = @ \cup {tag}]
                        ELSE [w EXCEPT !.root.tags[tag] = None,
                                       !.deleted.tags = @ \cup {tag},
                                       !.result.TagsPruned = Append(@, tag)]
         IN  pruneTagsSilent(w1, Tail(obsolete), fault)

\* The pruning loop of handleObsoleteTags.
RECURSIVE pruneTags(_, _, _)
pruneTags(w, obsolete, fault) ==
    IF obsolete = <<>> THEN w
    ELSE LET tag == Head(obsolete)
             w1 == IF w.opts.DryRun
                   THEN [w EXCEPT !.result.TagsPruned = Append(@, tag)]
                   ELSE IF fault = Fault("deltag", tag)
                        THEN [w EXCEPT !.deleted.failed = @ \cup {tag}]
                        ELSE [w EXCEPT !.root.tags[tag] = None,
                                       !.deleted.tags = @ \cup {tag},
                                       !.result.TagsPruned = Append(@, tag)]
         IN  pruneTags(w1, Tail(obsolete), fault)

handleObsoleteTags(w, fault) ==
    LET obs(n) == w.root.tags[n] # None /\ ~MatchesAny(n, cfg.Tags)
        obsolete == ListNames({n \in RefNames : obs(n)})
        w1 == [w EXCEPT !.result.TagsObsolete = obsolete]
    IN  IF w.opts.Prune /\ Len(obsolete) > 0
        THEN pruneTags(w1, obsolete, fault)
        ELSE w1

\* The tags fetchTags stores: one refspec per tag, in one fetch.
RECURSIVE storeTags(_, _)
storeTags(r, fetched) ==
    IF fetched = <<>> THEN r
    ELSE LET tag == Head(fetched)
             th == remote.tags[tag]
         IN  storeTags([r EXCEPT !.tags[tag] = th, !.objs = @ \cup ObjectsOf(th)],
                       Tail(fetched))

\* syncTagsWrapper with syncTags, resolveAndFilterTags and fetchTags.
syncTagsWrapper(w, fault) ==
    IF Len(cfg.Tags) = 0 THEN w
    ELSE IF ~CanList(w.root, fault, "listtags")
    THEN SetErr(w, "tag sync")
    ELSE LET matched == resolveTags(cfg.Tags)
             have(n) == w.root.tags[n] # None
             lack(n) == w.root.tags[n] = None
             fetched == SelectSeq(matched, lack)
             upToDate == SelectSeq(matched, have)
         IN  IF Len(fetched) > 0 /\ fault = Fault("fetchtags", <<>>)
             THEN SetErr(w, "tag sync")
             ELSE LET w1 == [w EXCEPT !.root = storeTags(@, fetched)]
                      w2 == handleObsoleteTags(w1, fault)
                  IN  [w2 EXCEPT !.result.TagsFetched = fetched,
                                 !.result.TagsUpToDate = upToDate]

\* handleCheckout, after which SyncRepo returns the result.
handleCheckout(w, fault) ==
    LET c == checkoutRef(w.root, cfg.Checkout, fault)
        w1 == IF cfg.Checkout = <<>> THEN w
              ELSE IF c.err
                   THEN SetErr([w EXCEPT !.root = c.repo], "checkout")
                   ELSE [w EXCEPT !.root = c.repo, !.result.Checkout = cfg.Checkout]
    IN  [w1 EXCEPT !.pc = "idle"]

(***************************************************************************)
(* OpenVox mode                                                            *)
(***************************************************************************)
ensureResolverRepo(e, fault) ==
    IF e.kind # "absent"
    THEN [repo |-> e, err |-> e.kind # "repo"]
    ELSE IF fault = Fault("init", <<>>)
         THEN [repo |-> e, err |-> TRUE]
         ELSE LET r == [Absent EXCEPT !.kind = "repo"]
              IN  IF fault = Fault("remote", <<>>)
                  THEN [repo |-> r, err |-> TRUE]
                  ELSE [repo |-> [r EXCEPT !.origin = TRUE], err |-> FALSE]

\* syncRepoOpenVox up to the resolver repository.
ovPrepare(w, fault) ==
    LET c == ensureResolverRepo(w.root, fault)
    IN  IF fault = Fault("auth", <<>>)
        THEN [w EXCEPT !.result.Err = "auth", !.pc = "idle"]
        ELSE IF c.err
             THEN [w EXCEPT !.root = c.repo, !.result.Err = "resolver repo",
                            !.pc = "idle"]
             ELSE [w EXCEPT !.root = c.repo, !.pc = "ovbranches"]

\* detectCollisions reporting every name whose key is already bound.
RECURSIVE detectCollisionsBound(_, _)
detectCollisionsBound(names, sanitizedToOriginal) ==
    IF names = <<>>
    THEN [collision |-> FALSE, map |-> sanitizedToOriginal]
    ELSE LET name == Head(names)
             sanitized == SanitizeName(name)
             existing == sanitizedToOriginal[sanitized]
         IN  IF existing # <<>>
             THEN [collision |-> TRUE, map |-> sanitizedToOriginal]
             ELSE detectCollisionsBound(Tail(names),
                      [sanitizedToOriginal EXCEPT ![sanitized] = name])

RECURSIVE detectCollisions(_, _)
detectCollisions(names, sanitizedToOriginal) ==
    IF names = <<>>
    THEN [collision |-> FALSE, map |-> sanitizedToOriginal]
    ELSE LET name == Head(names)
             sanitized == SanitizeName(name)
             existing == sanitizedToOriginal[sanitized]
         IN  IF existing # <<>> /\ existing # name
             THEN [collision |-> TRUE, map |-> sanitizedToOriginal]
             ELSE detectCollisions(Tail(names),
                      [sanitizedToOriginal EXCEPT ![sanitized] = name])

\* syncOneOpenVoxBranch going on after a failed fetch instead of returning.
syncOneOpenVoxBranchOn(w, branch, fault) ==
    LET dir == SanitizeName(branch)
        c == ensureCloned(w.dirs[dir], fault, branch)
        s == syncBranch(c.repo, branch, fault)
        k == checkoutRef(s.repo, branch, fault)
    IN  IF c.err
        THEN [w EXCEPT !.dirs[dir] = c.repo,
                       !.result.BranchesFailed = Append(@, branch)]
        ELSE IF s.err
        THEN [w EXCEPT !.dirs[dir] = s.repo,
                       !.result.BranchesFailed = Append(@, branch),
                       !.result.BranchesUpToDate = Append(@, branch)]
        ELSE IF k.err
        THEN [w EXCEPT !.dirs[dir] = k.repo,
                       !.result.BranchesFailed = Append(@, branch)]
        ELSE IF s.updated
        THEN [w EXCEPT !.dirs[dir] = k.repo,
                       !.result.BranchesSynced = Append(@, branch)]
        ELSE [w EXCEPT !.dirs[dir] = k.repo,
                       !.result.BranchesUpToDate = Append(@, branch)]

syncOneOpenVoxBranch(w, branch, fault) ==
    LET dir == SanitizeName(branch)
        c == ensureCloned(w.dirs[dir], fault, branch)
        s == syncBranch(c.repo, branch, fault)
        k == checkoutRef(s.repo, branch, fault)
    IN  IF c.err
        THEN [w EXCEPT !.dirs[dir] = c.repo,
                       !.result.BranchesFailed = Append(@, branch)]
        ELSE IF s.err
        THEN [w EXCEPT !.dirs[dir] = s.repo,
                       !.result.BranchesFailed = Append(@, branch)]
        ELSE IF k.err
        THEN [w EXCEPT !.dirs[dir] = k.repo,
                       !.result.BranchesFailed = Append(@, branch)]
        ELSE IF s.updated
        THEN [w EXCEPT !.dirs[dir] = k.repo,
                       !.result.BranchesSynced = Append(@, branch)]
        ELSE [w EXCEPT !.dirs[dir] = k.repo,
                       !.result.BranchesUpToDate = Append(@, branch)]

RECURSIVE syncOpenVoxBranchLoop(_, _, _)
syncOpenVoxBranchLoop(w, branches, fault) ==
    IF branches = <<>> THEN w
    ELSE LET branch == Head(branches)
             st == IF w.opts.PruneStale /\ w.opts.Prune
                   THEN IsStale(w.root, branch, remote.heads[branch],
                                w.opts.StaleAge, fault)
                   ELSE [repo |-> w.root, stale |-> FALSE]
             w1 == [NoteProbe(w, branch, fault) EXCEPT !.root = st.repo]
         IN  IF st.stale
             THEN syncOpenVoxBranchLoop(w1, Tail(branches), fault)
             ELSE syncOpenVoxBranchLoop(syncOneOpenVoxBranch(w1, branch, fault),
                                        Tail(branches), fault)

\* syncOpenVoxBranches; an error ends syncRepoOpenVox.
syncOpenVoxBranches(w, fault) ==
    IF Len(cfg.Branches) = 0 THEN [w EXCEPT !.pc = "ovtags"]
    ELSE IF ~CanList(w.root, fault, "list")
    THEN [w EXCEPT !.result.Err = "resolving branches", !.pc = "idle"]
    ELSE LET branches == resolveBranches(cfg.Branches)
             dc == detectCollisions(branches, w.active)
         IN  IF dc.collision
             THEN [w EXCEPT !.active = dc.map, !.result.Err = "collision",
                            !.pc = "idle"]
             ELSE [syncOpenVoxBranchLoop([w EXCEPT !.active = dc.map],
                                         branches, fault)
                   EXCEPT !.pc = "ovtags"]

syncOpenVoxTag(r, tag, fault) ==
    IF \/ fault = Fault("fetchtag", tag)
       \/ ~r.origin
       \/ remote.tags[tag] = None
    THEN [repo |-> r, updated |-> FALSE, err |-> TRUE]
    ELSE LET th == remote.tags[tag]
             fetched == [r EXCEPT !.tags[tag] = th, !.objs = @ \cup ObjectsOf(th)]
             k == checkoutRef(fetched, tag, fault)
         IN  IF k.err
             THEN [repo |-> k.repo, updated |-> FALSE, err |-> TRUE]
             ELSE [repo |-> k.repo, updated |-> r.tags[tag] # th, err |-> FALSE]

syncOneOpenVoxTag(w, tag, fault) ==
    LET dir == SanitizeName(tag)
        c == ensureCloned(w.dirs[dir], fault, tag)
        s == syncOpenVoxTag(c.repo, tag, fault)
    IN  IF c.err
        THEN SetErr([w EXCEPT !.dirs[dir] = c.repo], "tag sync")
        ELSE IF s.err
        THEN SetErr([w EXCEPT !.dirs[dir] = s.repo,
                              !.result.TagsFailed = Append(@, tag)], "tag sync")
        ELSE IF s.updated
        THEN [w EXCEPT !.dirs[dir] = s.repo,
                       !.result.TagsFetched = Append(@, tag)]
        ELSE [w EXCEPT !.dirs[dir] = s.repo,
                       !.result.TagsUpToDate = Append(@, tag)]

RECURSIVE syncOpenVoxTagLoop(_, _, _)
syncOpenVoxTagLoop(w, tags, fault) ==
    IF tags = <<>> THEN w
    ELSE syncOpenVoxTagLoop(syncOneOpenVoxTag(w, Head(tags), fault),
                            Tail(tags), fault)

syncOpenVoxTags(w, fault) ==
    IF Len(cfg.Tags) = 0 THEN w
    ELSE IF ~CanList(w.root, fault, "listtags")
    THEN SetErr(w, "resolving tags")
    ELSE LET tags == resolveTags(cfg.Tags)
             dc == detectCollisions(tags, w.active)
         IN  IF dc.collision
             THEN [w EXCEPT !.active = dc.map, !.result.Err = "collision"]
             ELSE syncOpenVoxTagLoop([w EXCEPT !.active = dc.map], tags, fault)

\* PruneItems over the obsolete directories, deleting with os.RemoveAll.
RECURSIVE PruneItems(_, _, _)
PruneItems(w, items, fault) ==
    IF items = <<>> THEN w
    ELSE LET name == Head(items)
             w1 == IF w.opts.DryRun
                   THEN [w EXCEPT !.result.BranchesPruned = Append(@, name)]
                   ELSE IF fault = Fault("rmdir", name)
                        THEN [w EXCEPT !.deleted.failed = @ \cup {name}]
                        ELSE [w EXCEPT !.dirs[name] = Absent,
                                       !.deleted.dirs = @ \cup {name},
                                       !.result.BranchesPruned = Append(@, name)]
         IN  PruneItems(w1, Tail(items), fault)

pruneOpenVoxDirs(w, fault) ==
    LET obs(d) == IsDir(w.dirs[d]) /\ ~IsHidden(d) /\ w.active[d] = <<>>
    IN  PruneItems(w, SelectSeq(DirOrder, obs), fault)

RECURSIVE pruneStaleOpenVoxDirs(_, _, _, _)
pruneStaleOpenVoxDirs(w, dirs, defaultBranch, fault) ==
    IF dirs = <<>> \/ w.opts.StaleAge = 0 THEN w
    ELSE LET sanitized == Head(dirs)
             original == w.active[sanitized]
             r == w.dirs[sanitized]
             w1 == IF \/ original = <<>>
                      \/ original = defaultBranch
                      \/ r.kind # "repo"
                      \/ r.wt = None
                   THEN w
                   ELSE IF ~ReadsCommit(r, r.wt, fault, original)
                   THEN [w EXCEPT !.unread = @ \cup {original}]
                   ELSE IF ~(SinceCommit[r.wt] > w.opts.StaleAge) THEN w
                   ELSE IF ~w.opts.DryRun /\ fault = Fault("rmdir", sanitized)
                        THEN [w EXCEPT !.deleted.failed = @ \cup {original}]
                   ELSE LET w0 == IF w.opts.DryRun THEN w
                                  ELSE [w EXCEPT !.dirs[sanitized] = Absent,
                                                 !.deleted.dirs = @ \cup {sanitized},
                                                 !.deleted.refs = @ \cup {original}]
                        IN  [w0 EXCEPT !.result.BranchesStale = Append(@, original),
                                       !.result.BranchesPruned = Append(@, original)]
         IN  pruneStaleOpenVoxDirs(w1, Tail(dirs), defaultBranch, fault)

(***************************************************************************)
(* The phases of SyncRepo and of syncRepoOpenVox                           *)
(***************************************************************************)
\* The branch phase deleting the obsolete tags as well, before the tags are
\* synchronized.
thenTagsPruning(w, fault) ==
    LET w1 == syncBranches(w, fault)
        w2 == IF w1.result.Err = None /\ Len(cfg.Tags) > 0
              THEN handleObsoleteTags(w1, fault) ELSE w1
    IN  [w2 EXCEPT !.pc = "tags"]

\* SyncRepo calls syncBranches, syncTagsWrapper and handleCheckout in turn.
thenTags(w, fault) == [syncBranches(w, fault) EXCEPT !.pc = "tags"]

thenCheckout(w, fault) == [syncTagsWrapper(w, fault) EXCEPT !.pc = "checkout"]

ovTags(w, fault) == [syncOpenVoxTags(w, fault) EXCEPT !.pc = "ovprune"]

ovPrune(w, fault) ==
    LET w1 == IF w.opts.Prune THEN pruneOpenVoxDirs(w, fault) ELSE w
    IN  [w1 EXCEPT !.pc = "ovstale"]

ovStale(w, fault) ==
    LET defaultBranch == resolveDefaultBranch(w.root, fault)
        w1 == IF w.opts.PruneStale
              THEN pruneStaleOpenVoxDirs(w, DirOrder, defaultBranch, fault)
              ELSE w
    IN  [w1 EXCEPT !.pc = "idle"]

(***************************************************************************)
(* Configurations, callers, remotes and local roots                        *)
(***************************************************************************)
Star == <<"*">>
OnlyM == <<"/", "^", "m", "$", "/">>

BranchPatterns == {<<Pat(Star)>>, <<Pat(OnlyM)>>, <<>>}
TagPatterns == {<<Pat(V1)>>, <<Pat(Star)>>}

\* validateRepo: a pattern is required, a checkout name must match a branch
\* or tag pattern outside OpenVox mode, prune_stale without stale_age gets
\* the default age.
validateRepo(c) ==
    /\ Len(c.Branches) > 0 \/ Len(c.Tags) > 0
    /\ c.PruneStale => c.StaleAge # 0
    /\ (~c.OpenVox /\ c.Checkout # <<>>) =>
           MatchesAny(c.Checkout, c.Branches) \/ MatchesAny(c.Checkout, c.Tags)

Configs ==
    {c \in [Branches : BranchPatterns, Tags : TagPatterns,
            Checkout : {<<>>, M}, OpenVox : BOOLEAN,
            PruneStale : BOOLEAN, StaleAge : {0, DefaultStaleAge}] :
        /\ validateRepo(c)
        /\ c.OpenVox => c.Checkout = <<>>
        /\ c.StaleAge # 0 => c.PruneStale}

\* The sync command builds SyncOptions from its flags; the scheduler and the
\* HTTP handlers of the daemon pass SyncOptions{}.
CliOpts ==
    {o \in [Prune : BOOLEAN, PruneStale : BOOLEAN, StaleAge : {0, DefaultStaleAge}] :
        o.StaleAge # 0 => o.PruneStale}

Calls ==
    {[by |-> "cli", opts |-> o] : o \in CliOpts}
        \cup {[by |-> "daemon",
               opts |-> [Prune |-> FALSE, PruneStale |-> FALSE, StaleAge |-> 0]]}

RemoteOf(m, f1, f2, t) ==
    [heads |-> [n \in RefNames |-> IF n = M THEN m ELSE IF n = F1 THEN f1
                                   ELSE IF n = F2 THEN f2 ELSE None],
     tags |-> [n \in RefNames |-> IF n = V1 THEN "t1"
                                  ELSE IF n = F2 THEN t ELSE None],
     HEAD |-> M]

\* The default branch m at the old or the new commit, with or without the
\* branches f-1 and f.1, the annotated tag v1 and, in one remote, a
\* lightweight tag f.1 next to the branch f-1, in another a lightweight tag
\* f.1 next to the branch f.1.
Remotes ==
    {RemoteOf(h[1], h[2], h[3], None) :
        h \in {x \in Commits \X {None, "c1"} \X {None, "c2"} :
                  x[2] = None => x[3] = None}}
        \cup {RemoteOf("c2", "c1", None, "c2"), RemoteOf("c2", None, "c2", "c1")}

\* A root left by earlier runs: branches m and f-1 at c1, tags f-1, f.1 and
\* m at c1.
OldRoot ==
    [Absent EXCEPT !.kind = "repo", !.origin = TRUE,
                   !.heads = [n \in RefNames |-> IF n \in {M, F1} THEN "c1" ELSE None],
                   !.remotes = [n \in RefNames |-> IF n \in {M, F1} THEN "c1" ELSE None],
                   !.tags = [n \in RefNames |-> IF n \in {F1, F2, M} THEN "c1" ELSE None],
                   !.objs = {"c1"}]

\* A per-branch directory left by earlier runs.
OldDir(branch) ==
    [Absent EXCEPT !.kind = "repo", !.origin = TRUE,
                   !.heads[branch] = "c1", !.remotes[branch] = "c1",
                   !.objs = {"c1"}, !.head = <<"heads", branch>>, !.wt = "c1"]

\* A per-tag directory left by earlier runs, when the tag was a lightweight
\* tag on c1.
OldTagDir(tag) ==
    [Absent EXCEPT !.kind = "repo", !.origin = TRUE,
                   !.tags[tag] = "c1",
                   !.objs = {"c1"}, !.head = <<"tags", tag>>, !.wt = "c1"]

NoDirs == [d \in DirNames |-> Absent]

OldDirs ==
    [d \in DirNames |->
        IF d = SanitizeName(M) THEN OldDir(M)
        ELSE IF d = SanitizeName(F1) THEN OldDir(F1)
        ELSE IF d = SanitizeName(V1) THEN OldTagDir(V1)
        ELSE IF d \in {Stray, HiddenDir} THEN [Absent EXCEPT !.kind = "dir"]
        ELSE IF d = PlainFile THEN [Absent EXCEPT !.kind = "file"]
        ELSE Absent]

Roots(openvox) ==
    IF openvox
    THEN {NewWorld(Absent, NoDirs),
          NewWorld([Absent EXCEPT !.kind = "repo", !.origin = TRUE], OldDirs)}
    ELSE {NewWorld(Absent, NoDirs), NewWorld(OldRoot, NoDirs)}

(***************************************************************************)
(* The daemon: one scheduled job per repository and the HTTP handlers       *)
(***************************************************************************)
\* The names of the repositories of the configuration, in the order SyncAll
\* goes through them.
RepoOrder == <<"a", "b", "c">>
RepoNames == Range(RepoOrder)

\* The requests the HTTP server serves at the same time, each on a goroutine
\* of its own.
MaxRequests == 2
Requests == 1..MaxRequests

\* A handler that serves no request.
Free == [kind |-> "free", repo |-> "", at |-> 0]

\* job[r]: the scheduled job of r is inside SyncRepo; req[h]: what handler h
\* is serving, POST /sync/{repo} inside SyncRepo for repo, or POST /sync
\* inside the SyncRepo call of SyncAll for RepoOrder[at].
DaemonIdle == [job |-> [r \in RepoNames |-> FALSE], req |-> [h \in Requests |-> Free]]

(***************************************************************************)
(* Loading a configuration: defaults, then validation                       *)
(***************************************************************************)
\* A local_path as the sequence of its components; <<>> is the unset field.
Paths == {<<>>, <<"p">>, <<"q">>, <<"p", "x">>}

\* The configurations read from the file: the local_path of the defaults and
\* two repositories with a name and a local_path.
RawConfigs ==
    [defaults : {<<>>, <<"p">>},
     repos : [1..2 -> [Name : {"a", "b"}, LocalPath : Paths]]]

\* Before a configuration is read.
NotLoaded == [stage |-> "none", defaults |-> <<>>, repos |-> <<>>]

applyDefaults(repo, defaults) ==
    IF repo.LocalPath = <<>> /\ defaults # <<>>
    THEN [repo EXCEPT !.LocalPath = defaults]
    ELSE repo

\* Validate with the checks of validateRepo on the name and the local_path.
Validate(repos) ==
    /\ Len(repos) > 0
    /\ \A i \in 1..Len(repos) :
           /\ repos[i].Name # ""
           /\ \A j \in 1..(i - 1) : repos[j].Name # repos[i].Name
           /\ repos[i].LocalPath # <<>>

\* The directory ensureCloned opens or initializes for a repository, and
\* under which syncRepoOpenVox creates and removes the per-ref directories.
LocalRoot(repo) == repo.LocalPath

\* Path p is q or lies under q.
Under(p, q) == Len(q) <= Len(p) /\ SubSeq(p, 1, Len(q)) = q

\* No function is being evaluated on its own.
NoCall == [fn |-> "none"]

Init ==
    /\ cfg \in Configs
    /\ call \in Calls
    /\ cfg.PruneStale =>
           call.by = "daemon" \/ (call.opts.Prune /\ ~call.opts.PruneStale)
    /\ remote \in Remotes
    /\ mirror \in Roots(cfg.OpenVox)
    /\ preview = mirror
    /\ runs = 0
    /\ spare = TRUE
    /\ daemon = DaemonIdle
    /\ loaded = NotLoaded
    /\ eval = NoCall

(***************************************************************************)
(* Actions: one per phase, taken by both roots with the same failure       *)
(***************************************************************************)
FaultNames == {F1}

Step(op(_, _), at, faults) ==
    /\ mirror.pc = at
    /\ \E fault \in faults \cup {NoFault} :
           /\ fault # NoFault => spare
           /\ mirror' = op(mirror, fault)
           /\ preview' = op(preview, fault)
           /\ spare' = (spare /\ fault = NoFault)
    /\ UNCHANGED <<cfg, call, remote, runs, daemon, loaded, eval>>

StartRun ==
    /\ mirror.pc = "idle"
    /\ runs < MaxRuns
    /\ \E fault \in {NoFault, Fault("https", <<>>)} :
           /\ fault # NoFault => spare
           /\ mirror' = startRun(mirror, FALSE, fault)
           /\ preview' = startRun(preview, TRUE, fault)
           /\ spare' = (spare /\ fault = NoFault)
    /\ runs' = runs + 1
    /\ UNCHANGED <<cfg, call, remote, daemon, loaded, eval>>

OpenRepo == Step(openRepo, "clone", FaultsOf({"auth", "init", "remote"}, {<<>>}))

SyncBranches ==
    Step(thenTags, "branches",
         FaultsOf({"list"}, {<<>>})
             \cup FaultsOf({"probe", "commit", "fetch", "resolve", "setref",
                            "delete", "deltrack"}, FaultNames))

SyncTags ==
    Step(thenCheckout, "tags",
         FaultsOf({"listtags", "fetchtags"}, {<<>>})
             \cup FaultsOf({"deltag"}, FaultNames))

Checkout == Step(handleCheckout, "checkout", FaultsOf({"checkout"}, {M}))

OvPrepare == Step(ovPrepare, "ovprepare", FaultsOf({"auth", "init", "remote"}, {<<>>}))

OvBranches ==
    Step(syncOpenVoxBranches, "ovbranches",
         FaultsOf({"list"}, {<<>>})
             \cup FaultsOf({"probe", "commit", "init", "fetch", "resolve",
                            "setref", "checkout"}, FaultNames))

OvTags ==
    Step(ovTags, "ovtags",
         FaultsOf({"listtags"}, {<<>>})
             \cup FaultsOf({"init", "fetchtag", "checkout"}, {V1}))

OvPrune == Step(ovPrune, "ovprune", FaultsOf({"rmdir"}, {Stray}))

OvStale ==
    Step(ovStale, "ovstale",
         FaultsOf({"listhead"}, {<<>>})
             \cup FaultsOf({"rmdir"}, {SanitizeName(F1)})
             \cup FaultsOf({"commit"}, FaultNames))

Next ==
    \/ StartRun
    \/ OpenRepo
    \/ SyncBranches
    \/ SyncTags
    \/ Checkout
    \/ OvPrepare
    \/ OvBranches
    \/ OvTags
    \/ OvPrune
    \/ OvStale

Spec == Init /\ [][Next]_vars

\* Both roots are always in the same phase.
InStep == mirror.pc = preview.pc

(***************************************************************************)
(* The daemon and the configuration loader on their own                    *)
(***************************************************************************)
\* No SyncRepo call is modelled step by step: one repository configuration
\* and one untouched local root.
SyncParked ==
    /\ cfg = [Branches |-> <<Pat(Star)>>, Tags |-> <<Pat(V1)>>,
              Checkout |-> <<>>, OpenVox |-> FALSE,
              PruneStale |-> FALSE, StaleAge |-> 0]
    /\ call = [by |-> "daemon",
               opts |-> [Prune |-> FALSE, PruneStale |-> FALSE, StaleAge |-> 0]]
    /\ remote = RemoteOf("c2", None, None, None)
    /\ mirror = NewWorld(Absent, NoDirs)
    /\ preview = mirror
    /\ runs = 0
    /\ spare = TRUE

SyncIdle == UNCHANGED <<cfg, call, remote, mirror, preview, runs, spare>>

InitDaemon == SyncParked /\ daemon = DaemonIdle /\ loaded = NotLoaded /\ eval = NoCall

\* The interval of the job of r elapses. In singleton mode the scheduler
\* does not start the task while its previous run has not returned.
Tick ==
    /\ \E r \in RepoNames :
           /\ ~daemon.job[r]
           /\ daemon' = [daemon EXCEPT !.job[r] = TRUE]
    /\ SyncIdle /\ UNCHANGED <<loaded, eval>>

\* SyncRepo returns to the task of a scheduled job.
JobDone ==
    /\ \E r \in RepoNames :
           /\ daemon.job[r]
           /\ daemon' = [daemon EXCEPT !.job[r] = FALSE]
    /\ SyncIdle /\ UNCHANGED <<loaded, eval>>

\* POST /sync/{repo} for a configured repository: the handler calls SyncRepo.
PostSyncRepo ==
    /\ \E h \in Requests, r \in RepoNames :
           /\ daemon.req[h] = Free
           /\ daemon' = [daemon EXCEPT !.req[h] =
                             [kind |-> "one", repo |-> r, at |-> 0]]
    /\ SyncIdle /\ UNCHANGED <<loaded, eval>>

\* POST /sync: the handler calls SyncAll, which calls SyncRepo for the
\* first repository.
PostSync ==
    /\ \E h \in Requests :
           /\ daemon.req[h] = Free
           /\ daemon' = [daemon EXCEPT !.req[h] =
                             [kind |-> "all", repo |-> "", at |-> 1]]
    /\ SyncIdle /\ UNCHANGED <<loaded, eval>>

\* SyncRepo returns to the handler of POST /sync/{repo}, which writes the
\* result.
SyncRepoReturns ==
    /\ \E h \in Requests :
           /\ daemon.req[h].kind = "one"
           /\ daemon' = [daemon EXCEPT !.req[h] = Free]
    /\ SyncIdle /\ UNCHANGED <<loaded, eval>>

\* SyncRepo returns to SyncAll, which goes on with the next repository or
\* returns the results.
SyncAllNext ==
    /\ \E h \in Requests :
           /\ daemon.req[h].kind = "all"
           /\ daemon' = [daemon EXCEPT !.req[h] =
                             IF @.at < Len(RepoOrder)
                             THEN [@ EXCEPT !.at = @ + 1]
                             ELSE Free]
    /\ SyncIdle /\ UNCHANGED <<loaded, eval>>

NextDaemon ==
    \/ Tick
    \/ JobDone
    \/ PostSyncRepo
    \/ PostSync
    \/ SyncRepoReturns
    \/ SyncAllNext

SpecDaemon == InitDaemon /\ [][NextDaemon]_vars

\* The handler state q is inside a SyncRepo call for repository r.
Serves(q, r) ==
    \/ q.kind = "one" /\ q.repo = r
    \/ q.kind = "all" /\ RepoOrder[q.at] = r

\* The SyncRepo calls for r that have not returned.
InFlight(r) ==
    (IF daemon.job[r] THEN 1 ELSE 0)
        + Cardinality({h \in Requests : Serves(daemon.req[h], r)})

InitConfig ==
    /\ SyncParked /\ daemon = DaemonIdle /\ eval = NoCall
    /\ \E c \in RawConfigs :
           loaded = [stage |-> "raw", defaults |-> c.defaults, repos |-> c.repos]

\* loadFile and loadDir apply the defaults to every repository.
LoadDefaults ==
    /\ loaded.stage = "raw"
    /\ loaded' = [loaded EXCEPT
                      !.stage = "defaulted",
                      !.repos = [i \in 1..Len(loaded.repos) |->
                                    applyDefaults(loaded.repos[i], loaded.defaults)]]
    /\ SyncIdle /\ UNCHANGED <<daemon, eval>>

\* Config.Validate accepts or rejects the configuration.
ValidateConfig ==
    /\ loaded.stage = "defaulted"
    /\ loaded' = [loaded EXCEPT
                      !.stage = IF Validate(loaded.repos) THEN "valid" ELSE "rejected"]
    /\ SyncIdle /\ UNCHANGED <<daemon, eval>>

NextConfig == LoadDefaults \/ ValidateConfig

SpecConfig == InitConfig /\ [][NextConfig]_vars

(***************************************************************************)
(* SanitizeName and detectCollisions on their own                          *)
(***************************************************************************)
\* No SyncRepo call, no daemon and no configuration are modelled.
AllParked == SyncParked /\ daemon = DaemonIdle /\ loaded = NotLoaded

AllIdle == SyncIdle /\ UNCHANGED <<daemon, loaded>>

\* The strings of at most n characters of chars.
Texts(chars, n) == UNION {[1..k -> chars] : k \in 0..n}

\* Characters of the classes SanitizeName tells apart: a lower-case and an
\* upper-case letter, a digit, the underscore, and four characters outside
\* [A-Za-z0-9_].
NameChars == {"a", "Z", "0", "_", "-", ".", "/", " "}

\* Length of the names handed to SanitizeName.
MaxLen == 3

\* How often SanitizeName is applied to its own result.
MaxApply == 2

InitSanitize ==
    /\ AllParked
    /\ \E x \in Texts(NameChars, MaxLen) :
           eval = [fn |-> "SanitizeName", name |-> x, outs |-> <<>>]

\* SanitizeName is called on the name, and then on what it returned.
Sanitize ==
    /\ eval.fn = "SanitizeName"
    /\ Len(eval.outs) < MaxApply
    /\ eval' = [eval EXCEPT !.outs =
                    Append(@, SanitizeName(IF @ = <<>> THEN eval.name
                                           ELSE @[Len(@)]))]
    /\ AllIdle

NextSanitize == Sanitize

SpecSanitize == InitSanitize /\ [][NextSanitize]_vars

\* The names handed to detectCollisions: two that differ and share the key
\* f_1, that key itself, a name with a key of its own, and the empty name.
FKey == <<"f", "_", "1">>
CollisionNames == {M, F1, F2, FKey, <<>>}

\* The map before any name is recorded; a missing key reads as "".
NoKeys == [k \in {SanitizeName(n) : n \in CollisionNames} |-> <<>>]

\* Length of the list of names of one call, and the number of calls on the
\* same map (syncRepoOpenVox makes two: the branches, then the tags).
MaxNames == 2
MaxCalls == 2

\* map: the running map; given: the names of the earlier calls; names and
\* collision: the argument and the result of the last call.
InitCollisions ==
    /\ AllParked
    /\ eval = [fn |-> "detectCollisions", map |-> NoKeys, given |-> {},
               names |-> <<>>, collision |-> FALSE, calls |-> 0]

\* detectCollisions is called on the running map; after a collision the run
\* ends, and the map is not used again.
DetectCollisions ==
    /\ eval.fn = "detectCollisions"
    /\ eval.calls < MaxCalls
    /\ ~eval.collision
    /\ \E names \in Texts(CollisionNames, MaxNames) :
           LET d == detectCollisions(names, eval.map)
           IN  eval' = [eval EXCEPT !.map = d.map,
                                    !.given = @ \cup Range(eval.names),
                                    !.names = names,
                                    !.collision = d.collision,
                                    !.calls = @ + 1]
    /\ AllIdle

NextCollisions == DetectCollisions

SpecCollisions == InitCollisions /\ [][NextCollisions]_vars

(***************************************************************************)
(* MatchesAny on its own                                                   *)
(***************************************************************************)
\* The names handed to MatchesAny: at most MaxNameLen characters of m, M, /
\* and *.
MatchChars == {"m", "M", "/", "*"}
MaxNameLen == 2

Slash == <<"/">>
Slashes == <<"/", "/">>
HasM == <<"/", "m", "/">>
UpperM == <<"M">>

\* The patterns: the wildcard, literals (the empty one, "/" and "//" among
\* them), and regexes with and without anchors, as Compile leaves them and,
\* for the regexes, also as a Pattern on which Compile was never called.
RawPatterns == {Star, <<>>, Slash, Slashes, M, UpperM, HasM, OnlyM}
Patterns ==
    {Pat(raw) : raw \in RawPatterns}
        \cup {[Raw |-> raw, compiled |-> FALSE] : raw \in {HasM, OnlyM}}

\* Length of the pattern list.
MaxPatterns == 2

InitMatch ==
    /\ AllParked
    /\ \E name \in Texts(MatchChars, MaxNameLen),
          patterns \in Texts(Patterns, MaxPatterns) :
           eval = [fn |-> "MatchesAny", name |-> name, patterns |-> patterns,
                   returned |-> FALSE, out |-> FALSE]

\* MatchesAny is called and returns.
Match ==
    /\ eval.fn = "MatchesAny"
    /\ ~eval.returned
    /\ eval' = [eval EXCEPT !.returned = TRUE,
                            !.out = MatchesAny(eval.name, eval.patterns)]
    /\ AllIdle

NextMatch == Match

SpecMatch == InitMatch /\ [][NextMatch]_vars

(***************************************************************************)
(* Properties                                                              *)
(***************************************************************************)
\* A SyncRepo call has returned on the root w.
Ended(w) == w.pc = "idle" /\ runs > 0

NothingRemoved(w) ==
    /\ w.deleted.branches = {} /\ w.deleted.tags = {} /\ w.deleted.dirs = {}
    /\ \A n \in RefNames :
           /\ w.before.root.heads[n] # None => w.root.heads[n] # None
           /\ w.before.root.tags[n] # None => w.root.tags[n] # None
    /\ \A d \in DirNames :
           w.before.dirs[d].kind # "absent" => w.dirs[d].kind # "absent"

NothingReported(w) ==
    w.result.BranchesPruned = <<>> /\ w.result.TagsPruned = <<>>

\* The names under which the removals of a run are reported in BranchesPruned:
\* a branch, an obsolete directory, or the ref a stale directory belonged to.
RemovedAs(w) ==
    w.deleted.branches
        \cup (w.deleted.dirs \ {SanitizeName(n) : n \in w.deleted.refs})
        \cup w.deleted.refs

\* C1 (as stated): with pruneStale on and prune off, a run in which no
\* operation fails deletes nothing and leaves every pruned list empty, in
\* classic and in OpenVox mode.
C1_StaleNeedsPrune ==
    \A w \in {mirror, preview} :
        (spare /\ runs > 0 /\ w.opts.PruneStale /\ ~w.opts.Prune) =>
            NothingRemoved(w) /\ NothingReported(w)

BranchCandidates(w) ==
    {n \in RefNames :
        /\ w.root.heads[n] # None
        /\ n # cfg.Checkout
        /\ \/ w.opts.Prune /\ ~MatchesAny(n, cfg.Branches)
           \/ /\ w.opts.PruneStale /\ w.opts.StaleAge # 0
              /\ MatchesAny(n, cfg.Branches)
              /\ SinceCommit[w.root.heads[n]] > w.opts.StaleAge
              /\ w.unread = {}}

TagCandidates(w) ==
    {n \in RefNames :
        w.opts.Prune /\ w.root.tags[n] # None /\ ~MatchesAny(n, cfg.Tags)}

DirCandidates(w) ==
    {d \in DirNames :
        w.opts.Prune /\ IsDir(w.dirs[d]) /\ ~IsHidden(d) /\ w.active[d] = <<>>}

C5_DaemonNeverPrunes ==
    (spare /\ call.by = "daemon") =>
        NothingRemoved(mirror) /\ NothingReported(mirror)

\* A result without Err and without a failed branch or tag.
Clean(res) ==
    res.Err = None /\ res.BranchesFailed = <<>> /\ res.TagsFailed = <<>>

Quiet(res) ==
    /\ res.BranchesSynced = <<>> /\ res.TagsFetched = <<>>
    /\ res.BranchesUpToDate # <<>> /\ res.TagsUpToDate # <<>>

\* The second of two consecutive runs without failure has ended on w, and the
\* remote has a matched branch and a matched tag.
SecondRun(w) ==
    /\ runs = 2 /\ Ended(w)
    /\ Clean(w.prev) /\ Clean(w.result)
    /\ resolveBranches(cfg.Branches) # <<>>
    /\ resolveTags(cfg.Tags) # <<>>

StaleRemote(w) ==
    {b \in Range(resolveBranches(cfg.Branches)) :
        SinceCommit[remote.heads[b]] > w.opts.StaleAge}

Handled(w) ==
    Range(w.result.BranchesSynced) \cup Range(w.result.BranchesUpToDate)
        \cup Range(w.result.BranchesFailed)

\* The branch phase has gone through the matched branches on w.
BranchesDone(w) ==
    /\ Len(cfg.Branches) > 0
    /\ \/ w.pc = "tags" /\ w.result.Err = None
       \/ w.pc = "ovtags"

\* The sync loop left branch b alone: in classic mode the local ref is where
\* it was or was pruned, in OpenVox mode the directory is as it was.
Untouched(w, b) ==
    IF cfg.OpenVox
    THEN w.dirs[SanitizeName(b)] = w.before.dirs[SanitizeName(b)]
    ELSE w.root.heads[b] \in {w.before.root.heads[b], None}

\* C7 (amended): with prune and pruneStale on, a stale matched remote branch
\* whose staleness check succeeds is skipped: it is in none of BranchesSynced,
\* BranchesUpToDate, BranchesFailed and is not created or moved; with either
\* flag off every matched remote branch is handled.
C7_StaleSkipped ==
    \A w \in {mirror, preview} :
        BranchesDone(w) =>
            IF w.opts.Prune /\ w.opts.PruneStale
            THEN \A b \in StaleRemote(w) \ w.unprobed :
                     b \notin Handled(w) /\ Untouched(w, b)
            ELSE Range(resolveBranches(cfg.Branches)) \subseteq Handled(w)

\* A stale branch whose commit was not in the local object store was probed
\* and skipped while another branch was synced.
C7_Witness ==
    /\ BranchesDone(mirror) /\ mirror.opts.Prune /\ mirror.opts.PruneStale
    /\ \E b \in StaleRemote(mirror) :
           /\ remote.heads[b] \notin mirror.before.root.objs
           /\ b \notin mirror.unprobed
           /\ b \notin Handled(mirror)
    /\ mirror.result.BranchesSynced # <<>>

\* C7 (as stated): with prune and pruneStale on, every stale matched remote
\* branch is skipped.
C7_EveryStaleSkipped ==
    \A w \in {mirror, preview} :
        (BranchesDone(w) /\ w.opts.Prune /\ w.opts.PruneStale) =>
            \A b \in StaleRemote(w) : b \notin Handled(w) /\ Untouched(w, b)

\* The repositories syncBranch may be called on for branch b: the root in
\* classic mode, the directory of b in OpenVox mode.
ReposOf(w, b) == {w.root, w.dirs[SanitizeName(b)]}

\* The root w is about to go through the matched branches.
AtBranches(w) == w.pc \in {"branches", "ovbranches"}

\* C8: when the fetch of syncBranch fails or is canceled, or the fetched
\* remote-tracking ref cannot be resolved, syncBranch returns an error and
\* no local branch ref has changed.
C8_FailedSyncKeepsRef ==
    \A w \in {mirror, preview} :
        AtBranches(w) =>
            \A b \in RefNames : \A r \in ReposOf(w, b) :
                \A op \in {"none", "fetch", "resolve", "setref"} :
                    LET s == syncBranch(r, b, Fault(op, b))
                    IN  /\ op \in {"fetch", "resolve"} => s.err
                        /\ s.err => ~s.updated /\ s.repo.heads = r.heads

\* The sync of f-1 failed in a run that synced m, and f-1, which the remote
\* has, is still missing locally.
C8_Witness ==
    /\ mirror.pc = "tags"
    /\ F1 \in Range(mirror.result.BranchesFailed)
    /\ remote.heads[F1] # None /\ mirror.root.heads[F1] = None
    /\ M \in Range(mirror.result.BranchesSynced)

\* C9: a branch whose sync fails is listed in BranchesFailed and every
\* other matched branch is still handled, in classic and in OpenVox mode.
C9_OthersStillSynced ==
    \A w \in {mirror, preview} :
        BranchesDone(w) =>
            /\ Range(resolveBranches(cfg.Branches)) \ StaleRemote(w)
                   \subseteq Handled(w)
            /\ \A b \in Range(w.result.BranchesFailed) :
                   /\ b \notin Range(w.result.BranchesSynced)
                   /\ b \notin Range(w.result.BranchesUpToDate)

\* f-1, the first matched branch, failed and the later branch m was synced or
\* found up to date.
C9_Witness ==
    /\ BranchesDone(mirror)
    /\ mirror.result.BranchesFailed = <<F1>>
    /\ M \in Range(mirror.result.BranchesSynced)
                \cup Range(mirror.result.BranchesUpToDate)

\* C10 (as stated): when listing the remote fails while the branches are
\* resolved, the run is aborted: no tag is fetched, nothing is pruned and
\* nothing is checked out.
C10_ListFailureAborts ==
    \A w \in {mirror, preview} :
        w.result.Err = "resolving branches" =>
            /\ w.result.TagsFetched = <<>> /\ w.result.TagsUpToDate = <<>>
            /\ NothingRemoved(w) /\ NothingReported(w)
            /\ w.result.Checkout = <<>>
            /\ w.root.tags = w.before.root.tags
            /\ w.root.head = w.before.root.head

\* C11: in OpenVox mode, when two distinct matched names among the branches
\* and tags sanitize to the same directory name, the run ends with a
\* collision error and has created, updated or removed no per-ref directory.
C11_CollisionBeforeMaterialize ==
    \A w \in {mirror, preview} :
        (spare /\ cfg.OpenVox /\ Ended(w) /\ w.result.Err = "collision") =>
            w.dirs = w.before.dirs

\* C12: in classic mode a local tag whose name equals the configured checkout
\* ref is never deleted and never listed in TagsPruned, also when it matches
\* no tag pattern and prune is enabled.
C12_CheckoutTagKept ==
    \A w \in {mirror, preview} :
        (spare /\ ~cfg.OpenVox /\ cfg.Checkout # <<>>) =>
            /\ cfg.Checkout \notin w.deleted.tags
            /\ cfg.Checkout \notin Range(w.result.TagsPruned)

\* C13: in OpenVox mode stale pruning never removes the directory of the
\* remote's default branch, however old its checked-out commit, in every run
\* in which stale pruning executes.
C13_DefaultBranchKept ==
    \A w \in {mirror, preview} :
        cfg.OpenVox =>
            /\ remote.HEAD \notin w.deleted.refs
            /\ remote.HEAD \notin Range(w.result.BranchesStale)

\* The failures a staleness check of branch b can meet.
CheckFaults(b) == {NoFault, Fault("probe", b), Fault("commit", b)}

\* C14: a staleness evaluation that cannot be completed treats the ref as
\* not stale: IsStale answers false whenever checkStaleness returns an
\* error, so the branch is synced, and no branch or directory whose commit
\* could not be read is listed or deleted as stale.
C14_FailedCheckNotStale ==
    \A w \in {mirror, preview} :
        /\ AtBranches(w) =>
               \A b \in Range(resolveBranches(cfg.Branches)) :
                   \A f \in CheckFaults(b) :
                       checkStaleness(w.root, b, remote.heads[b],
                                      DefaultStaleAge, f).err =>
                           ~IsStale(w.root, b, remote.heads[b],
                                    DefaultStaleAge, f).stale
        /\ BranchesDone(w) => w.unprobed \subseteq Handled(w)
        /\ \A b \in w.unread :
               /\ b \notin Range(w.result.BranchesStale)
               /\ b \notin w.deleted.refs
               /\ cfg.OpenVox => w.dirs[SanitizeName(b)].kind # "absent"
        /\ (~cfg.OpenVox /\ w.unread # {}) =>
               /\ w.result.BranchesStale = <<>>
               /\ w.deleted.branches \subseteq Range(w.result.BranchesObsolete)

\* The check of a branch with a 400 days old tip failed, the branch was
\* synced, and at the end of the run it is still there although stale
\* pruning was on.
C14_Witness ==
    /\ Ended(mirror) /\ mirror.opts.Prune /\ mirror.opts.PruneStale
    /\ \E b \in mirror.unprobed \cap mirror.unread :
           /\ b \in StaleRemote(mirror)
           /\ b \in Handled(mirror)
           /\ mirror.root.heads[b] = remote.heads[b]

\* C15: after a staleness probe has returned, with the answer stale or not
\* stale, with an error or after a cancelled fetch, no temporary ref under
\* refs/gfetch-tmp/ is left in the local repository.
C15_NoTemporaryRefLeft ==
    \A w \in {mirror, preview} :
        /\ w.root.tmp = {}
        /\ \A d \in DirNames : w.dirs[d].tmp = {}
        /\ AtBranches(w) =>
               \A b \in Range(resolveBranches(cfg.Branches)) :
                   \A f \in CheckFaults(b) :
                       checkStaleness(w.root, b, remote.heads[b],
                                      DefaultStaleAge, f).repo.tmp = {}

\* A branch whose commit the local store did not hold was probed with a
\* depth-1 fetch, found stale and skipped; the commit arrived, no temporary
\* ref stayed.
C15_Witness ==
    /\ BranchesDone(mirror) /\ mirror.opts.Prune /\ mirror.opts.PruneStale
    /\ \E b \in StaleRemote(mirror) :
           /\ remote.heads[b] \in mirror.root.objs \ mirror.before.root.objs
           /\ mirror.root.remotes[b] = None
           /\ mirror.root.tmp = {}

\* The end-to-end scenario on the root w: classic mode, branch pattern *,
\* checkout unset, prune and pruneStale on with a stale age of 180 days; the
\* remote has m (main) and f.1 (new-feature) with a tip of today and f-1
\* (old-feature) with a tip 400 days old; no operation fails, and the branch
\* phase of the run has ended.
Scenario(w) ==
    /\ ~cfg.OpenVox /\ cfg.Branches = <<Pat(Star)>> /\ cfg.Checkout = <<>>
    /\ remote = RemoteOf("c2", "c1", "c2", None)
    /\ w.opts.Prune /\ w.opts.PruneStale /\ w.opts.StaleAge = DefaultStaleAge
    /\ spare /\ w.pc = "tags"

Current(w) == Range(w.result.BranchesSynced) \cup Range(w.result.BranchesUpToDate)

\* C16 (amended): in the end-to-end scenario main and new-feature are synced
\* or up to date and no branch is obsolete; old-feature is in BranchesStale
\* and in BranchesPruned when the local repository held it before the run,
\* and otherwise it is skipped: it is in no list and is not created.
C16_EndToEnd ==
    \A w \in {mirror, preview} :
        Scenario(w) =>
            /\ {M, F2} \subseteq Current(w)
            /\ w.result.BranchesObsolete = <<>>
            /\ IF w.before.root.heads[F1] # None
               THEN /\ F1 \in Range(w.result.BranchesStale)
                    /\ F1 \in Range(w.result.BranchesPruned)
                    /\ F1 \notin Handled(w)
               ELSE /\ F1 \notin Range(w.result.BranchesStale)
                    /\ F1 \notin Range(w.result.BranchesPruned)
                    /\ F1 \notin Handled(w)
                    /\ w.root.heads[F1] = None

\* The scenario on a repository that held old-feature: it was listed as
\* stale and pruned and is gone, main moved to the new tip.
C16_Witness ==
    /\ Scenario(mirror)
    /\ mirror.before.root.heads[F1] = "c1"
    /\ F1 \in mirror.deleted.branches
    /\ F1 \in Range(mirror.result.BranchesPruned)
    /\ M \in Range(mirror.result.BranchesSynced)

\* C16 (as stated): in the end-to-end scenario main and new-feature are
\* synced or up to date, old-feature is in BranchesStale and in
\* BranchesPruned, and BranchesObsolete is empty.
C16_EndToEndAsStated ==
    \A w \in {mirror, preview} :
        Scenario(w) =>
            /\ {M, F2} \subseteq Current(w)
            /\ F1 \in Range(w.result.BranchesStale)
            /\ F1 \in Range(w.result.BranchesPruned)
            /\ w.result.BranchesObsolete = <<>>

Disjoint(a, b, c) ==
    /\ Range(a) \cap Range(b) = {}
    /\ Range(a) \cap Range(c) = {}
    /\ Range(b) \cap Range(c) = {}

\* C17: in every run each branch name is in at most one of BranchesSynced,
\* BranchesUpToDate, BranchesFailed, each tag name in at most one of
\* TagsFetched, TagsUpToDate, TagsFailed, and no name is in both the obsolete
\* and the stale list of its category.
C17_ListsDisjoint ==
    \A w \in {mirror, preview} :
        /\ Disjoint(w.result.BranchesSynced, w.result.BranchesUpToDate,
                    w.result.BranchesFailed)
        /\ Disjoint(w.result.TagsFetched, w.result.TagsUpToDate,
                    w.result.TagsFailed)
        /\ Range(w.result.BranchesObsolete) \cap Range(w.result.BranchesStale) = {}

\* A run ended with a synced, an up-to-date, a failed and a stale branch and
\* a fetched tag.
C17_Witness ==
    /\ Ended(mirror)
    /\ mirror.result.BranchesSynced # <<>>
    /\ mirror.result.BranchesUpToDate # <<>>
    /\ mirror.result.BranchesFailed # <<>>
    /\ mirror.result.BranchesStale # <<>>
    /\ mirror.result.TagsFetched # <<>>

\* The failures syncBranch can meet on branch b.
SyncFaults(b) ==
    {NoFault, Fault("fetch", b), Fault("resolve", b), Fault("setref", b)}

\* The repositories the branch phase hands to syncBranch for branch b: the
\* root, or the directory of b once ensureCloned has opened or created it.
Opened(w, b) == {ensureCloned(e, NoFault, b).repo : e \in ReposOf(w, b)}

\* C20: when syncBranch, called on a repository the branch phase works on,
\* returns without error, the local branch ref points to the hash of the
\* freshly fetched remote-tracking ref, also when that is no fast-forward of
\* the old one; it returns updated = false and leaves the local branch refs
\* as they were iff the local ref already had that hash, and updated = true
\* otherwise; no other branch is moved.
C20_SyncBranchSetsRef ==
    \A w \in {mirror, preview} :
        \A b \in {n \in RefNames : AtBranches(w) /\ remote.heads[n] # None} :
            \A r \in Opened(w, b) :
                \A f \in SyncFaults(b) :
                    LET s == syncBranch(r, b, f)
                    IN  ~s.err =>
                            /\ s.repo.remotes[b] = remote.heads[b]
                            /\ s.repo.heads[b] = s.repo.remotes[b]
                            /\ s.updated <=> r.heads[b] # remote.heads[b]
                            /\ ~s.updated => s.repo.heads = r.heads
                            /\ \A n \in RefNames \ {b} :
                                   s.repo.heads[n] = r.heads[n]

\* A run moved the local branch m from c1 to c2, which is no descendant of
\* c1, and reported it as synced.
C20_Witness ==
    /\ ~cfg.OpenVox /\ mirror.pc = "tags"
    /\ mirror.before.root.heads[M] = "c1"
    /\ mirror.root.heads[M] = "c2"
    /\ ~IsAncestor("c1", "c2")
    /\ M \in Range(mirror.result.BranchesSynced)

\* C18: in daemon mode at most one SyncRepo run per repository is in flight
\* at any time, counting the scheduled jobs and the runs started through
\* POST /sync and POST /sync/{repo}.
C18_OneRunPerRepo == \A r \in RepoNames : InFlight(r) <= 1

\* C19: in every configuration accepted by Validate, repositories that
\* inherit local_path from the defaults included, the local roots of two
\* different repositories are neither the same path nor one under the
\* other, so their runs write disjoint paths.
C19_DisjointRoots ==
    loaded.stage = "valid" =>
        \A i, j \in 1..Len(loaded.repos) :
            i # j => ~Under(LocalRoot(loaded.repos[i]), LocalRoot(loaded.repos[j]))

\* The tag phase of the run on w has ended without an error.
TagsDone(w) ==
    /\ Len(cfg.Tags) > 0 /\ w.result.Err = None
    /\ w.pc \in {"checkout", "ovprune"}

\* The repository that holds tag n: the root in classic mode, the directory
\* of n in OpenVox mode.
TagRepo(root, dirs, n) == IF cfg.OpenVox THEN dirs[SanitizeName(n)] ELSE root

\* C21 (as stated): once a local tag ref exists no later run changes the
\* hash it points to, also when the remote tag has moved, and a matched tag
\* that is present locally is reported up to date and is not fetched again,
\* in classic and in OpenVox mode.
C21_TagImmutable ==
    \A w \in {mirror, preview} :
        \A n \in RefNames :
            LET old == TagRepo(w.before.root, w.before.dirs, n).tags[n]
                new == TagRepo(w.root, w.dirs, n).tags[n]
            IN  old # None =>
                    /\ new \in {old, None}
                    /\ (TagsDone(w) /\ n \in Range(resolveTags(cfg.Tags))) =>
                           /\ n \in Range(w.result.TagsUpToDate)
                           /\ n \notin Range(w.result.TagsFetched)

\* The local branches and tags of the root w that match no pattern of their
\* kind.
UnmatchedBranches(w) ==
    {n \in RefNames : w.root.heads[n] # None /\ ~MatchesAny(n, cfg.Branches)}

UnmatchedTags(w) ==
    {n \in RefNames : w.root.tags[n] # None /\ ~MatchesAny(n, cfg.Tags)}

\* C22 (as stated): after a run with prune and pruneStale both off in which
\* no operation fails, the local branches and tags that match no current
\* pattern are listed in BranchesObsolete and TagsObsolete, no ref was
\* deleted and the pruned lists are empty.
C22_ObsoleteOnlyListed ==
    \A w \in {mirror, preview} :
        (spare /\ ~cfg.OpenVox /\ Ended(w)
               /\ ~w.opts.Prune /\ ~w.opts.PruneStale) =>
            /\ UnmatchedBranches(w) = Range(w.result.BranchesObsolete)
            /\ UnmatchedTags(w) = Range(w.result.TagsObsolete)
            /\ NothingRemoved(w) /\ NothingReported(w)

\* Two different original names among names share a sanitized key.
Clash(names) ==
    \E x, y \in names : x # y /\ SanitizeName(x) = SanitizeName(y)

\* C23: detectCollisions, called on a list of names and on the map left by
\* the calls before it, reports a collision iff two different original names
\* among the recorded and the new ones sanitize to the same key; a name that
\* is repeated, in the same call or in a later one, is no collision, and
\* without a collision every key is bound to the name that sanitizes to it.
C23_CollisionIffClash ==
    (eval.fn = "detectCollisions" /\ eval.calls > 0) =>
        LET all == eval.given \cup Range(eval.names)
        IN  /\ eval.collision <=> Clash(all)
            /\ Cardinality(all) <= 1 => ~eval.collision
            /\ ~eval.collision =>
                   \A n \in all \ {<<>>} : eval.map[SanitizeName(n)] = n

\* The branches call recorded f-1 and m; the tags call got m again and then
\* f.1, and reported the collision of f.1 with f-1.
C23_Witness ==
    /\ eval.fn = "detectCollisions" /\ eval.calls = 2
    /\ eval.given = {F1, M}
    /\ eval.names = <<M, F2>>
    /\ eval.collision

\* C24: for every name, the empty one included, SanitizeName returns a name
\* of the same length in which every character of [A-Za-z0-9_] is kept, every
\* other character is replaced by one underscore, and which SanitizeName
\* maps to itself.
C24_SanitizePure ==
    (eval.fn = "SanitizeName" /\ eval.outs # <<>>) =>
        LET x == eval.name
            y == eval.outs[1]
        IN  /\ Len(y) = Len(x)
            /\ \A i \in 1..Len(x) :
                   /\ y[i] \in Letters \cup Digits \cup {"_"}
                   /\ x[i] \in Letters \cup Digits \cup {"_"} => y[i] = x[i]
                   /\ x[i] \notin Letters \cup Digits \cup {"_"} => y[i] = "_"
            /\ \A k \in 2..Len(eval.outs) : eval.outs[k] = y

\* SanitizeName was applied twice to "a-/", giving "a__" both times.
C24_Witness ==
    /\ eval.fn = "SanitizeName"
    /\ eval.name = <<"a", "-", "/">>
    /\ eval.outs = <<(<<"a", "_", "_">>), (<<"a", "_", "_">>)>>

\* Name contains the character c.
Contains(name, c) == \E i \in 1..Len(name) : name[i] = c

\* What the pattern syntax says of one pattern and one name: * matches every
\* name; a pattern of at least three characters that begins and ends with /
\* matches as the regex between the delimiters does, once compiled: /m/
\* wherever the name contains m, /^m$/ only the name m; every other
\* pattern matches the identical name.
Selects(p, name) ==
    IF p.Raw = Star THEN TRUE
    ELSE IF p.Raw = HasM THEN p.compiled /\ Contains(name, "m")
    ELSE IF p.Raw = OnlyM THEN p.compiled /\ name = M
    ELSE name = p.Raw

\* C25: MatchesAny(name, patterns) is true iff at least one pattern matches
\* the name, where * matches every name, a pattern wrapped in / with a
\* non-empty body matches by its compiled, unanchored regex, and every other
\* pattern, / and // included, matches only the identical string, upper and
\* lower case told apart.
C25_MatchesAnyIffOne ==
    (eval.fn = "MatchesAny" /\ eval.returned) =>
        eval.out <=> \E i \in 1..Len(eval.patterns) :
                         Selects(eval.patterns[i], eval.name)

\* The name "Mm" was matched by the second pattern of ["//", "/m/"]: the
\* first is a literal, the second a regex without anchors.
C25_Witness ==
    /\ eval.fn = "MatchesAny" /\ eval.returned
    /\ eval.name = <<"M", "m">>
    /\ eval.patterns = <<Pat(Slashes), Pat(HasM)>>
    /\ eval.out

\* The hash name resolves to in r, as a branch first and then as a tag.
RefOf(r, name) == IF r.heads[name] # None THEN r.heads[name] ELSE r.tags[name]

\* The commit a ref hash stands for: the target of an annotated tag, the hash
\* itself otherwise.
Peeled(h) == IF h \in TagObjects THEN TagTarget[h] ELSE h

\* The tag phase of the run on w is over.
AfterTags(w) == w.pc \in {"checkout", "ovprune"}

\* C26: checkoutRef on a name that resolves to an annotated tag resets the
\* working tree to the target commit of the tag and not to the hash of the
\* tag object; for a branch or a lightweight tag it resets to the hash the ref
\* points to. Stated of a checkout of any ref whose objects the repository
\* holds, and of the directories of the tags an OpenVox run has synced, where
\* the name resolves as a branch first and then as a tag.
C26_CheckoutPeels ==
    \A w \in {mirror, preview} :
        AfterTags(w) =>
            /\ \A n \in RefNames : \A r \in ReposOf(w, n) :
                   LET h == RefOf(r, n)
                       k == checkoutRef(r, n, NoFault)
                   IN  (h # None /\ ObjectsOf(h) \subseteq r.objs) =>
                           /\ ~k.err
                           /\ k.repo.wt = Peeled(h)
                           /\ k.repo.wt \in Commits
                           /\ k.repo.head[2] = n
            /\ cfg.OpenVox =>
                   \A n \in Range(w.result.TagsFetched)
                              \cup Range(w.result.TagsUpToDate) :
                       LET r == w.dirs[SanitizeName(n)]
                       IN  r.wt = Peeled(RefOf(r, n)) /\ r.head[2] = n

\* An OpenVox run fetched the annotated tag v1 into its directory and checked
\* it out: the tag ref holds the tag object t1, the working tree its target c1.
C26_Witness ==
    /\ cfg.OpenVox /\ mirror.pc = "ovprune"
    /\ V1 \in Range(mirror.result.TagsFetched)
    /\ mirror.dirs[SanitizeName(V1)].tags[V1] = "t1"
    /\ mirror.dirs[SanitizeName(V1)].wt = TagTarget["t1"]
    /\ mirror.before.dirs[SanitizeName(V1)].kind = "absent"

\* C27 (as stated): whenever opening or creating the local repository has
\* succeeded and the run goes on to resolve the branches, the path holds a
\* repository whose remote origin is registered, also on a path where an
\* earlier attempt failed after the init and before the remote was created.
C27_OpenYieldsOrigin ==
    \A w \in {mirror, preview} :
        AtBranches(w) => w.root.kind = "repo" /\ w.root.origin

\* The directories that held the checkout of a tag when the run on w began.
TagDirs(w) ==
    {d \in DirNames :
        /\ w.before.dirs[d].kind = "repo"
        /\ w.before.dirs[d].head # <<>>
        /\ w.before.dirs[d].head[1] = "tags"}

\* C28 (as stated): in OpenVox mode, when resolving the remote tags fails or
\* a collision of tag names is detected, the run removes no directory of a
\* tag and lists none as pruned: the tags that were not resolved in this run
\* are not taken for obsolete.
C28_TagFailureKeepsDirs ==
    \A w \in {mirror, preview} :
        (cfg.OpenVox /\ w.result.Err \in {"resolving tags", "collision"}) =>
            \A d \in TagDirs(w) :
                /\ w.dirs[d].kind # "absent"
                /\ d \notin Range(w.result.BranchesPruned)

\* C29 (as stated): after a run without dryRun, with prune on, in which no
\* operation fails, every local branch and tag that matches no current
\* pattern of its kind, the checkout ref apart, has been removed, also when
\* the branch pattern list or the tag pattern list is empty.
C29_UnmatchedRemoved ==
    (spare /\ ~cfg.OpenVox /\ Ended(mirror) /\ mirror.opts.Prune) =>
        /\ UnmatchedBranches(mirror) \subseteq {cfg.Checkout}
        /\ UnmatchedTags(mirror) \subseteq {cfg.Checkout}

\* C30 (as stated): in classic mode with prune and pruneStale on, a matched
\* remote branch that is the checkout ref is synchronized and never skipped
\* as stale: after a run on a fresh local root in which no operation fails
\* the local checkout branch is at the remote tip and the checkout succeeded.
C30_CheckoutBranchSynced ==
    \A w \in {mirror, preview} :
        (/\ spare /\ ~cfg.OpenVox /\ Ended(w)
         /\ w.opts.Prune /\ w.opts.PruneStale
         /\ w.before.root.kind = "absent"
         /\ cfg.Checkout \in Range(resolveBranches(cfg.Branches))) =>
            /\ w.root.heads[cfg.Checkout] = remote.heads[cfg.Checkout]
            /\ cfg.Checkout \in Current(w)
            /\ w.result.Checkout = cfg.Checkout
            /\ w.result.Err = None

\* C31 (as stated): in OpenVox mode with prune and pruneStale on, the
\* default branch of the remote is never skipped by the staleness check
\* before the sync: when it matches a pattern and no operation fails, after
\* the run its directory exists and is checked out at the remote tip,
\* however old that tip is.
C31_DefaultBranchSynced ==
    \A w \in {mirror, preview} :
        (/\ spare /\ cfg.OpenVox /\ Ended(w)
         /\ w.opts.Prune /\ w.opts.PruneStale
         /\ w.result.Err = None
         /\ remote.HEAD \in Range(resolveBranches(cfg.Branches))) =>
            LET r == w.dirs[SanitizeName(remote.HEAD)]
            IN  /\ remote.HEAD \in Current(w)
                /\ r.kind = "repo"
                /\ r.heads[remote.HEAD] = remote.heads[remote.HEAD]
                /\ r.wt = remote.heads[remote.HEAD]

\* C32 (as stated): when the effective stale age of a run is 0, no ref is
\* treated as stale: in a run without failure every matched remote branch
\* is synced, up to date or failed, and no branch is reported as stale; and
\* for every stale age the check before the sync and the classification
\* after it agree on a branch whose commit the repository holds.
C32_ZeroAgeNothingStale ==
    \A w \in {mirror, preview} :
        /\ (/\ spare /\ Ended(w) /\ w.opts.StaleAge = 0
            /\ w.result.Err = None) =>
               /\ Len(cfg.Branches) > 0 =>
                      Range(resolveBranches(cfg.Branches)) \subseteq Handled(w)
               /\ w.result.BranchesStale = <<>>
        /\ (AtBranches(w) /\ ~cfg.OpenVox) =>
               \A b \in RefNames :
                   (/\ w.root.heads[b] # None
                    /\ MatchesAny(b, cfg.Branches)
                    /\ \A n \in RefNames :
                           (w.root.heads[n] # None /\ MatchesAny(n, cfg.Branches))
                               => HasCommit(w.root, w.root.heads[n])) =>
                       (IsStale(w.root, b, w.root.heads[b],
                                w.opts.StaleAge, NoFault).stale
                           <=> b \in Range(findStaleBranches(w.root, cfg.Branches,
                                               w.opts.StaleAge, NoFault).stale))

\* C33 (as stated): in a run with prune and pruneStale on, no ref is both
\* synchronized and pruned: no name of BranchesSynced or TagsFetched is also
\* in BranchesPruned or TagsPruned, in classic and in OpenVox mode, also
\* when a staleness probe fails.
C33_SyncedNotPruned ==
    \A w \in {mirror, preview} :
        (w.opts.Prune /\ w.opts.PruneStale) =>
            (Range(w.result.BranchesSynced) \cup Range(w.result.TagsFetched))
                \cap (Range(w.result.BranchesPruned)
                          \cup Range(w.result.TagsPruned)) = {}

\* The refs a run materialized: the branches it synced or found up to date
\* and the tags it fetched or found up to date, each with its kind.
Materialized(w) ==
    {<<"branch", b>> : b \in Current(w)}
        \cup {<<"tag", t>> : t \in Range(w.result.TagsFetched)
                                  \cup Range(w.result.TagsUpToDate)}

\* C34 (as stated): in OpenVox mode no two distinct matched refs are
\* materialized into the same directory, also when a matched branch and a
\* matched tag have the same short name.
C34_OneRefPerDirectory ==
    \A w \in {mirror, preview} :
        cfg.OpenVox =>
            \A x, y \in Materialized(w) :
                SanitizeName(x[2]) = SanitizeName(y[2]) => x = y

\* The tags a result lists as fetched or up to date.
TagsCurrent(res) == Range(res.TagsFetched) \cup Range(res.TagsUpToDate)

\* The failures of the sync of one branch and of one tag, per mode.
BranchFailures(b) ==
    IF cfg.OpenVox
    THEN FaultsOf({"init", "fetch", "resolve", "setref", "checkout"}, {b}) \ {NoFault}
    ELSE FaultsOf({"fetch", "resolve", "setref"}, {b}) \ {NoFault}

TagFailures(t) ==
    IF cfg.OpenVox
    THEN FaultsOf({"init", "fetchtag", "checkout"}, {t}) \ {NoFault}
    ELSE {Fault("fetchtags", <<>>)}

\* The branch phase and the tag phase of the mode of the run.
BranchPhase(w, fault) ==
    IF cfg.OpenVox THEN syncOpenVoxBranches(w, fault) ELSE thenTags(w, fault)

TagPhase(w, fault) ==
    IF cfg.OpenVox THEN ovTags(w, fault) ELSE thenCheckout(w, fault)

\* C35 (as stated): a matched ref that the phase would have synced, and that
\* it does not sync because opening its repository, its fetch or its
\* checkout fails, is listed in BranchesFailed or TagsFailed, whichever step
\* failed, in classic and in OpenVox mode.
C35_FailedRefListed ==
    \A w \in {mirror, preview} :
        /\ (spare /\ AtBranches(w)) =>
               \A b \in FaultNames : \A f \in BranchFailures(b) :
                   LET good == BranchPhase(w, NoFault).result
                       bad  == BranchPhase(w, f).result
                   IN  (b \in Range(good.BranchesSynced) \cup Range(good.BranchesUpToDate)
                            /\ b \notin Range(bad.BranchesSynced)
                                            \cup Range(bad.BranchesUpToDate)) =>
                           b \in Range(bad.BranchesFailed)
        /\ (spare /\ w.pc \in {"tags", "ovtags"}) =>
               \A t \in RefNames : \A f \in TagFailures(t) :
                   LET good == TagPhase(w, NoFault).result
                       bad  == TagPhase(w, f).result
                   IN  (t \in TagsCurrent(good) /\ t \notin TagsCurrent(bad)) =>
                           t \in Range(bad.TagsFailed)

\* The run on w has removed no branch, tag or directory so far and reports
\* none as pruned.
NoDeletionYet(w) ==
    /\ w.deleted.branches = {} /\ w.deleted.tags = {}
    /\ w.deleted.dirs = {} /\ w.deleted.refs = {}
    /\ NothingReported(w)

\* C36 (as stated): nothing is deleted before the synchronization of all
\* matched branches and tags has finished: while the run still has branches
\* or tags to synchronize, no branch, tag or directory has been removed.
C36_PruneAfterAllSync ==
    \A w \in {mirror, preview} :
        (\/ w.pc \in {"branches", "ovbranches", "ovtags"}
         \/ w.pc = "tags" /\ Len(cfg.Tags) > 0) => NoDeletionYet(w)

\* C36 (amended): in classic mode the order is per kind: nothing is deleted
\* before the branches are synchronized, the branches are pruned before the
\* tags are synchronized, no tag is deleted before the tags are
\* synchronized, and the checkout comes after all pruning, the working tree
\* being untouched until then; in OpenVox mode nothing is deleted before
\* all matched branches and tags are synchronized, and the stale
\* directories are removed after the obsolete ones.
C36_PhaseOrder ==
    \A w \in {mirror, preview} :
        /\ w.pc \in {"clone", "branches", "ovprepare", "ovbranches",
                     "ovtags", "ovprune"} => NoDeletionYet(w)
        /\ w.pc = "tags" => w.deleted.tags = {} /\ w.result.TagsPruned = <<>>
        /\ w.pc \in {"clone", "branches", "tags", "checkout"} =>
               /\ w.result.Checkout = <<>>
               /\ w.root.wt = w.before.root.wt
               /\ w.root.head = w.before.root.head
        /\ w.pc = "ovstale" => w.deleted.refs = {} /\ w.result.BranchesStale = <<>>

\* A classic run deleted an obsolete branch before its tags were synchronized,
\* then deleted an obsolete tag, and checked out the branch m last.
C36_Witness ==
    /\ ~cfg.OpenVox /\ Ended(mirror) /\ spare
    /\ mirror.deleted.branches # {} /\ mirror.deleted.tags # {}
    /\ mirror.result.TagsFetched # <<>>
    /\ mirror.result.Checkout = M
    /\ mirror.root.wt # mirror.before.root.wt

\* The repository r without the remote-tracking ref of branch.
Untracked(r, branch) == [r EXCEPT !.remotes[branch] = None]

\* C37: deleteBranch removes the local branch ref and, when it is present,
\* the remote-tracking ref origin/<name>; a missing tracking ref is no
\* error; no other ref and nothing else of the repository changes. When
\* removing the local ref fails nothing has changed, and when removing the
\* tracking ref fails only the local ref is gone. Stated of the repository
\* of a classic run, with and without the tracking ref, and of the branches
\* the run deleted.
C37_DeleteBranchFrame ==
    \A w \in {mirror, preview} :
        (~cfg.OpenVox /\ w.pc \in {"branches", "tags"}) =>
            /\ \A b \in RefNames : \A r \in {w.root, Untracked(w.root, b)} :
                   LET d == deleteBranch(r, b, NoFault)
                       l == deleteBranch(r, b, Fault("delete", b))
                       t == deleteBranch(r, b, Fault("deltrack", b))
                   IN  /\ ~d.err
                       /\ d.repo = [r EXCEPT !.heads[b] = None, !.remotes[b] = None]
                       /\ l.err /\ l.repo = r
                       /\ t.err <=> r.remotes[b] # None
                       /\ t.repo = [r EXCEPT !.heads[b] = None]
            /\ w.pc = "tags" =>
                   /\ w.root.tags = w.before.root.tags
                   /\ \A b \in w.deleted.branches :
                          /\ w.root.heads[b] = None
                          /\ b \notin w.deleted.failed => w.root.remotes[b] = None
                   /\ \A b \in RefNames \ w.deleted.branches :
                          w.before.root.heads[b] # None => w.root.heads[b] # None

\* A classic run deleted the local branch f-1 and its tracking ref and kept
\* the branch m with its tracking ref.
C37_Witness ==
    /\ ~cfg.OpenVox /\ mirror.pc = "tags"
    /\ F1 \in mirror.deleted.branches /\ mirror.deleted.failed = {}
    /\ mirror.before.root.remotes[F1] # None
    /\ mirror.root.heads[F1] = None /\ mirror.root.remotes[F1] = None
    /\ mirror.root.heads[M] # None /\ mirror.root.remotes[M] # None

\* The directory names of the refs the run on w matched: the remote branches
\* and tags that match a pattern, the tags only once they were resolved.
MatchedDirs(w) ==
    {SanitizeName(n) : n \in Range(resolveBranches(cfg.Branches))}
        \cup IF w.result.Err = "resolving tags" THEN {}
             ELSE {SanitizeName(n) : n \in Range(resolveTags(cfg.Tags))}

\* C38 (as stated): the obsolete pruning of an OpenVox run never removes a
\* hidden directory, an entry that is no directory, or the directory of a
\* ref matched in the run, and lists none of them as pruned; when no removal
\* fails it removes exactly the other subdirectories.
C38_PruneSparesMatched ==
    \A w \in {mirror, preview} :
        (cfg.OpenVox /\ w.pc = "ovstale" /\ w.opts.Prune) =>
            \A d \in DirNames :
                /\ (IsHidden(d) \/ ~IsDir(w.before.dirs[d]) \/ d \in MatchedDirs(w)) =>
                       /\ d \notin w.deleted.dirs
                       /\ d \notin Range(w.result.BranchesPruned)
                       /\ w.before.dirs[d].kind # "absent" => w.dirs[d].kind # "absent"
                /\ (/\ spare /\ ~w.opts.DryRun
                    /\ IsDir(w.before.dirs[d]) /\ ~IsHidden(d)
                    /\ d \notin MatchedDirs(w)) =>
                       d \in w.deleted.dirs /\ w.dirs[d].kind = "absent"

\* The names of the branches the run on w can know: the branches of the
\* remote and the local branches the root or a directory held when the run
\* began.
BranchNames(w) ==
    {b \in RefNames :
        \/ remote.heads[b] # None
        \/ w.before.root.heads[b] # None
        \/ w.before.dirs[SanitizeName(b)].heads[b] # None}

\* The tags whose directory the run on w removed.
TagsRemoved(w) ==
    {t \in RefNames : SanitizeName(t) \in w.deleted.dirs \cap TagDirs(w)
                          /\ w.before.dirs[SanitizeName(t)].tags[t] # None}

\* C39 (as stated): the pruned lists are kept per kind and by original name:
\* every name in BranchesPruned is the original name of a branch, and every
\* tag or tag directory a run removed is reported in TagsPruned, in classic
\* and in OpenVox mode.
C39_PrunedPerKind ==
    \A w \in {mirror, preview} :
        /\ Range(w.result.BranchesPruned) \subseteq BranchNames(w)
        /\ w.deleted.tags \subseteq Range(w.result.TagsPruned)
        /\ TagsRemoved(w) \subseteq Range(w.result.TagsPruned)

\* The remote branches that match at least one branch pattern.
MatchingRemote ==
    {b \in RefNames : remote.heads[b] # None /\ MatchesAny(b, cfg.Branches)}

\* C40: in a classic run without stale skipping (prune or pruneStale off)
\* whose remote listing succeeds, the names in BranchesSynced,
\* BranchesUpToDate and BranchesFailed are exactly the remote branches that
\* match at least one branch pattern, each name once.
C40_HandledIsMatched ==
    \A w \in {mirror, preview} :
        (/\ ~cfg.OpenVox /\ w.pc = "tags" /\ Len(cfg.Branches) > 0
         /\ w.result.Err = None
         /\ ~(w.opts.Prune /\ w.opts.PruneStale)) =>
            /\ Handled(w) = MatchingRemote
            /\ Len(w.result.BranchesSynced) + Len(w.result.BranchesUpToDate)
                   + Len(w.result.BranchesFailed) = Cardinality(MatchingRemote)

\* A classic run with the pattern m, on a remote that also has the branch
\* f-1, handled m and nothing else.
C40_Witness ==
    /\ ~cfg.OpenVox /\ mirror.pc = "tags" /\ mirror.result.Err = None
    /\ ~(mirror.opts.Prune /\ mirror.opts.PruneStale)
    /\ cfg.Branches = <<Pat(OnlyM)>>
    /\ remote.heads[F1] # None
    /\ Handled(mirror) = {M}

====
